---------------------------- MODULE Spec2Model ----------------------------
(***************************************************************************)
(* A model of the bulk file downloader extension: the service worker      *)
(* (download scheduling, metadata enrichment) and the popup (candidate    *)
(* list, selection, enrichment merge, live re-scan).                      *)
(*                                                                         *)
(* Strings the code inspects character by character (filenames,           *)
(* extensions) are sequences of one-character strings; URLs, which the    *)
(* code modelled here only compares and uses as keys, are atoms.          *)
(* A JavaScript object is a function from its keys to values, so that a   *)
(* missing key (finalUrl, enriched, size) is a key outside the DOMAIN.    *)
(***************************************************************************)
EXTENDS Integers, Sequences, FiniteSets, TLC

(***************************************************************************)
(* Characters and JavaScript string primitives                            *)
(***************************************************************************)

\* representatives of the control characters \x00-\x1f
ControlChars == {"\t", "\n", "\r"}

\* representatives of the characters \s matches
WhitespaceChars == {" ", "\t", "\n", "\r"}

\* the character class [<>:"/\\|?*\x00-\x1f] of sanitizeFilename
InvalidChars == {"<", ">", ":", "\"", "/", "\\", "|", "?", "*"} \cup ControlChars

\* String.prototype.slice(from, to) with 0-based half-open indices, 0 <= from
Slice(s, from, to) ==
  LET hi == IF to > Len(s) THEN Len(s) ELSE to
  IN  IF from >= hi THEN <<>> ELSE SubSeq(s, from + 1, hi)

\* the largest index i <= from with s[i] in/not in a class (0 when there is none)
RECURSIVE LastWhere(_, _, _, _)
LastWhere(s, class, inClass, from) ==
  IF from = 0 THEN 0
  ELSE IF (s[from] \in class) = inClass THEN from
  ELSE LastWhere(s, class, inClass, from - 1)

\* the smallest index i >= from with s[i] in/not in a class (Len(s) + 1 when none)
RECURSIVE FirstWhere(_, _, _, _)
FirstWhere(s, class, inClass, from) ==
  IF from > Len(s) THEN Len(s) + 1
  ELSE IF (s[from] \in class) = inClass THEN from
  ELSE FirstWhere(s, class, inClass, from + 1)

\* String.prototype.lastIndexOf(ch): 0-based index of the last ch, or -1
LastIndexOf(s, ch) == LastWhere(s, {ch}, TRUE, Len(s)) - 1

\* s.replace(/[class]/g, by): every character of the class replaced by `by`
ReplaceEach(s, class, by) ==
  [i \in 1..Len(s) |-> IF s[i] \in class THEN by ELSE s[i]]

\* s.replace(/[class]+/g, by): every maximal run of class characters becomes `by`
CollapseRuns(s, class, by) ==
  LET marked == [i \in 1..Len(s) |->
                   IF s[i] \notin class THEN s[i]
                   ELSE IF i > 1 /\ s[i - 1] \in class THEN "drop" ELSE by]
  IN  SelectSeq(marked, LAMBDA c : c # "drop")

\* strip the leading characters of a class
StripLeading(s, class) == SubSeq(s, FirstWhere(s, class, FALSE, 1), Len(s))

\* strip the trailing characters of a class
StripTrailing(s, class) == SubSeq(s, 1, LastWhere(s, class, FALSE, Len(s)))

\* String.prototype.trim()
Trim(s) == StripTrailing(StripLeading(s, WhitespaceChars), WhitespaceChars)

\* object spread { ...a, ...b }: the keys of both, b's values winning
Spread(a, b) ==
  [k \in (DOMAIN a) \cup (DOMAIN b) |-> IF k \in DOMAIN b THEN b[k] ELSE a[k]]

Range(s) == {s[i] : i \in 1..Len(s)}

\* the decimal digits of a non-negative integer, as a string
RECURSIVE ToDigits(_)
ToDigits(n) ==
  LET d == <<"0", "1", "2", "3", "4", "5", "6", "7", "8", "9">>
  IN  IF n < 10 THEN <<d[n + 1]>> ELSE ToDigits(n \div 10) \o <<d[(n % 10) + 1]>>

\* the string of n copies of a character
Repeat(ch, n) == [i \in 1..n |-> ch]

\* the value undefined, which is no string
Undefined == <<"undefined">>

\* obj[key], undefined for a missing key
Get(obj, key) == IF key \in DOMAIN obj THEN obj[key] ELSE Undefined

\* the value null, which is no string
Null == <<"null">>

\* a value that is neither undefined nor null nor the empty string
Truthy(str) == str # Undefined /\ str # Null /\ str # <<>>

\* how a call ends: by returning a value, or by throwing
Returned(value) == [threw |-> FALSE, value |-> value]
Threw == [threw |-> TRUE]

\* the lower-case letter of each upper-case letter
LowerOf ==
  ("A" :> "a") @@ ("B" :> "b") @@ ("C" :> "c") @@ ("D" :> "d") @@
  ("E" :> "e") @@ ("F" :> "f") @@ ("G" :> "g") @@ ("H" :> "h") @@
  ("I" :> "i") @@ ("J" :> "j") @@ ("K" :> "k") @@ ("L" :> "l") @@
  ("M" :> "m") @@ ("N" :> "n") @@ ("O" :> "o") @@ ("P" :> "p") @@
  ("Q" :> "q") @@ ("R" :> "r") @@ ("S" :> "s") @@ ("T" :> "t") @@
  ("U" :> "u") @@ ("V" :> "v") @@ ("W" :> "w") @@ ("X" :> "x") @@
  ("Y" :> "y") @@ ("Z" :> "z")

\* String.prototype.toLowerCase
toLowerCase(s) == [i \in 1..Len(s) |-> IF s[i] \in DOMAIN LowerOf THEN LowerOf[s[i]] ELSE s[i]]

(***************************************************************************)
(* Content script: strings, URLs and the candidate map                    *)
(***************************************************************************)

Digits == {"0", "1", "2", "3", "4", "5", "6", "7", "8", "9"}

LowerLetters == {LowerOf[c] : c \in DOMAIN LowerOf}

\* the character class [a-zA-Z0-9]
AlnumChars == LowerLetters \cup DOMAIN LowerOf \cup Digits

\* s.startsWith(pat) at the 1-based position i
MatchesAt(s, pat, i) ==
  /\ i + Len(pat) - 1 <= Len(s)
  /\ \A k \in 1..Len(pat) : s[i + k - 1] = pat[k]

\* String.prototype.includes
Includes(s, pat) == \E i \in 1..(Len(s) + 1) : MatchesAt(s, pat, i)

\* String.prototype.split(ch) for a one-character separator, from position i on
RECURSIVE SplitFrom(_, _, _)
SplitFrom(s, ch, i) ==
  LET From(next) ==
        IF next > Len(s) THEN <<SubSeq(s, i, Len(s))>>
        ELSE <<SubSeq(s, i, next - 1)>> \o SplitFrom(s, ch, next + 1)
  IN  From(FirstWhere(s, {ch}, TRUE, i))

Split(s, ch) == SplitFrom(s, ch, 1)

\* decodeURIComponent, for the escape %20
RECURSIVE decodeURIComponent(_)
decodeURIComponent(s) ==
  IF s = <<>> THEN <<>>
  ELSE IF MatchesAt(s, <<"%", "2", "0">>, 1) THEN <<" ">> \o decodeURIComponent(SubSeq(s, 4, Len(s)))
  ELSE <<s[1]>> \o decodeURIComponent(SubSeq(s, 2, Len(s)))

\* the capture of str.match(/\.([a-zA-Z0-9]+)$/), <<>> when there is no match
ExtensionMatch(str) ==
  LET Capture(dot, rest) ==
        IF dot > 0 /\ rest # <<>> /\ \A i \in 1..Len(rest) : rest[i] \in AlnumChars
        THEN rest ELSE <<>>
      After(dot) == Capture(dot, SubSeq(str, dot + 1, Len(str)))
  IN  After(LastWhere(str, {"."}, TRUE, Len(str)))

SUPPORTED_EXTENSIONS ==
  {<<"j", "p", "g">>, <<"j", "p", "e", "g">>, <<"p", "n", "g">>, <<"g", "i", "f">>, <<"w", "e", "b", "p">>, <<"s", "v", "g">>, <<"b", "m", "p">>, <<"i", "c", "o">>,
   <<"p", "d", "f">>, <<"d", "o", "c">>, <<"d", "o", "c", "x">>, <<"x", "l", "s">>, <<"x", "l", "s", "x">>, <<"p", "p", "t">>, <<"p", "p", "t", "x">>, <<"t", "x", "t">>,
   <<"r", "t", "f">>, <<"o", "d", "t">>, <<"o", "d", "s">>,
   <<"m", "p", "4">>, <<"w", "e", "b", "m">>, <<"a", "v", "i">>, <<"m", "o", "v">>, <<"m", "k", "v">>, <<"f", "l", "v">>, <<"w", "m", "v">>,
   <<"m", "p", "3">>, <<"w", "a", "v">>, <<"o", "g", "g">>, <<"f", "l", "a", "c">>, <<"a", "a", "c">>, <<"m", "4", "a">>,
   <<"z", "i", "p">>, <<"r", "a", "r">>, <<"7", "z">>, <<"t", "a", "r">>, <<"g", "z">>, <<"b", "z", "2">>,
   <<"t", "t", "f">>, <<"o", "t", "f">>, <<"w", "o", "f", "f">>, <<"w", "o", "f", "f", "2">>, <<"e", "o", "t">>}

isSupported(extension) == toLowerCase(extension) \in SUPPORTED_EXTENSIONS

\* the URLs of the pages the scanner is checked with, as new URL() parses them:
\* the path, the search parameters and the scheme
UrlTable ==
  [h \in {"https://x/docs/Report.PDF"} |->
     [pathname |-> <<"/", "d", "o", "c", "s", "/", "R", "e", "p", "o", "r", "t", ".", "P", "D", "F">>, searchParams |-> <<>>, protocol |-> "https:"]]
  @@ [h \in {"https://x/img/photo.jpg"} |->
     [pathname |-> <<"/", "i", "m", "g", "/", "p", "h", "o", "t", "o", ".", "j", "p", "g">>, searchParams |-> <<>>, protocol |-> "https:"]]
  @@ [h \in {"https://x/download/123"} |->
     [pathname |-> <<"/", "d", "o", "w", "n", "l", "o", "a", "d", "/", "1", "2", "3">>, searchParams |-> <<>>, protocol |-> "https:"]]
  @@ [h \in {"https://x/"} |->
     [pathname |-> <<"/">>, searchParams |-> <<>>, protocol |-> "https:"]]
  @@ [h \in {"https://x/media?format=MP4"} |->
     [pathname |-> <<"/", "m", "e", "d", "i", "a">>, searchParams |-> [format |-> <<"M", "P", "4">>],
      protocol |-> "https:"]]
  @@ [h \in {"final"} |->
     [pathname |-> <<"/">>, searchParams |-> <<>>, protocol |-> "https:"]]
  @@ [h \in {"https://cdn/files/Setup.EXE"} |->
     [pathname |-> <<"/", "f", "i", "l", "e", "s", "/", "S", "e", "t", "u", "p", ".", "E", "X", "E">>, searchParams |-> <<>>, protocol |-> "https:"]]
  @@ [h \in {"https://x/page", "https://x/page#", "https://x/page#downloads"} |->
     [pathname |-> <<"/", "p", "a", "g", "e">>, searchParams |-> <<>>, protocol |-> "https:"]]
  @@ [h \in {"https://x/get?file=my_font"} |->
     [pathname |-> <<"/", "g", "e", "t">>, searchParams |-> [file |-> <<"m", "y", "_", "f", "o", "n", "t">>],
      protocol |-> "https:"]]
  @@ [h \in {"https://x/files/report:final"} |->
     [pathname |-> <<"/", "f", "i", "l", "e", "s", "/", "r", "e", "p", "o", "r", "t", ":", "f", "i", "n", "a", "l">>, searchParams |-> <<>>, protocol |-> "https:"]]
  @@ [h \in {"javascript:void(0)"} |->
     [pathname |-> <<"v", "o", "i", "d", "(", "0", ")">>, searchParams |-> <<>>, protocol |-> "javascript:"]]

\* String.prototype.startsWith, for the text of a URL
startsWith(str, prefix) ==
  Len(str) >= Len(prefix) /\ SubSeq(str, 1, Len(prefix)) = prefix

\* url.searchParams.get(name), null when the parameter is absent
SearchParam(urlObj, name) ==
  IF name \in DOMAIN urlObj.searchParams THEN urlObj.searchParams[name] ELSE Null

\* a || b for strings and null
Or(a, b) == IF a # Null /\ a # <<>> THEN a ELSE b

\* extractFileInfo(url): a sequence holding the file info, empty for null
extractFileInfo(url) ==
  LET Info(filenameWithoutQuery, extension, formatParam) ==
        IF extension = <<>>
        THEN IF formatParam # Null /\ formatParam # <<>>
                /\ isSupported(toLowerCase(formatParam))
             THEN <<[url |-> url, filename |-> Or(filenameWithoutQuery, <<"f", "i", "l", "e">>),
                     extension |-> toLowerCase(formatParam)]>>
             ELSE <<>>
        ELSE <<[url |-> url,
                filename |-> Or(filenameWithoutQuery, <<"f", "i", "l", "e", ".">> \o extension),
                extension |-> extension]>>
      Named(urlObj, filename) ==
        Info(Split(filename, "?")[1],
             toLowerCase(ExtensionMatch(Split(filename, "?")[1])),
             Or(SearchParam(urlObj, "format"), SearchParam(urlObj, "ext")))
      Last(pathParts) == pathParts[Len(pathParts)]
  IN  Named(UrlTable[url], decodeURIComponent(Last(Split(UrlTable[url].pathname, "/"))))

MapSetAlwaysAppend(map, key, value) == Append(map, [key |-> key, value |-> value])

\* Map.prototype.set on a map kept as the sequence of its entries
MapSet(map, key, value) ==
  IF \E i \in 1..Len(map) : map[i].key = key
  THEN [i \in 1..Len(map) |-> IF map[i].key = key THEN [key |-> key, value |-> value]
                              ELSE map[i]]
  ELSE Append(map, [key |-> key, value |-> value])

(***************************************************************************)
(* Service worker: filename finalisation                                  *)
(***************************************************************************)

\* the length sanitizeFilename cuts a name to
SanitizeMaxLen == 180

\* the literal fallback name 'download'
DownloadName == <<"d", "o", "w", "n", "l", "o", "a", "d">>

OrDownload(s) == IF s = <<>> THEN DownloadName ELSE s

sanitizeFilenameNoFallback(filename) ==
  IF ~Truthy(filename) THEN DownloadName
  ELSE LET replaced  == ReplaceEach(filename, InvalidChars, "_")
           collapsed == CollapseRuns(replaced, WhitespaceChars \cup {"_"}, " ")
           trimmed   == Trim(collapsed)
           undotted  == StripTrailing(StripLeading(trimmed, {"."}), {"."})
       IN  Slice(undotted, 0, SanitizeMaxLen)

sanitizeFilename(filename) ==
  IF ~Truthy(filename) THEN DownloadName
  ELSE LET replaced  == ReplaceEach(filename, InvalidChars, "_")
           collapsed == CollapseRuns(replaced, WhitespaceChars \cup {"_"}, " ")
           trimmed   == Trim(collapsed)
           undotted  == StripTrailing(StripLeading(trimmed, {"."}), {"."})
       IN  OrDownload(Slice(undotted, 0, SanitizeMaxLen))

addFilenameCounterAfterExt(filename, count) ==
  filename \o <<" ", "(">> \o ToDigits(count) \o <<")">>

addFilenameCounter(filename, count) ==
  LET lastDotIndex == LastIndexOf(filename, ".")
      suffix       == <<" ", "(">> \o ToDigits(count) \o <<")">>
  IN  IF lastDotIndex = -1
      THEN filename \o suffix
      ELSE Slice(filename, 0, lastDotIndex) \o suffix
             \o Slice(filename, lastDotIndex, Len(filename))

(***************************************************************************)
(* State                                                                  *)
(***************************************************************************)

VARIABLES
  \* service worker, downloads
  batches,      \* per downloadFiles invocation: the position of its async body
  issued,       \* per invocation: the chrome.downloads.download calls made, in order
  outstanding,  \* the download calls whose completion callback has not fired yet
  lastOutcome,  \* per invocation: how its most recent completion callback ended
  replied,      \* per downloadFiles message: whether sendResponse has been called
  \* service worker, enrichment
  headCache,    \* the Map headCache: url -> {timestamp, data}
  now,          \* Date.now(), in milliseconds
  ticks,        \* how many times the clock has advanced
  calls,        \* per enrichFilesWithMetadata call: its files, promises and result
  probes,       \* the HEAD requests of the calls: call, index, url, start time, state
  \* popup
  popupPc,      \* scanPage: "init" before the tab is known, "scanning", "ready"
  popupFiles,   \* the array files
  filteredFiles,\* the array filteredFiles: the indices in files of its elements
  filterValue,  \* filterType.value
  rows,         \* the number of checkboxes in the rendered list
  enrichPc,     \* enrichFiles: "none", "awaiting" the response, "done"
  lastEvent,    \* the handler of the popup that ran last, and its input
  \* content script, scanning
  document,     \* the page: its roots, iframes, heading and title
  scanResponse, \* how the last scanFiles request on the page as it is now ended
  rescans,      \* how many scanFiles requests the page as it is now has answered
  \* content script, live scanning
  liveScanEnabled, \* the flag of the same name
  observer,     \* whether the variable observer holds a MutationObserver
  observing,    \* how many MutationObservers are connected to the page
  pendingChanges, \* the flag of the same name
  debounceTimer, \* the timer id kept in debounceTimer: <<>> for null
  timers,       \* the armed timers
  publications, \* the filesChanged messages sent so far
  burst,        \* when the relevant batches not yet published or dropped arrived
  liveEvent,    \* the handler of the content script that ran last
  \* content script, one filename resolution on its own
  resolved,     \* the last call of extractBestFilename: its arguments and result
  \* service worker, one probe on its own
  lastFetch     \* the last probe answered: its candidate, response and result

dlVars == <<batches, issued, outstanding, lastOutcome, replied>>

enVars == <<headCache, now, ticks, calls, probes>>

popVars == <<popupPc, popupFiles, filteredFiles, filterValue, rows, enrichPc, lastEvent>>

scanVars == <<document, scanResponse, rescans>>

liveVars ==
  <<liveScanEnabled, observer, observing, pendingChanges, debounceTimer, timers,
    publications, burst, liveEvent>>

nameVars == <<resolved>>

csVars == <<scanVars, liveVars, nameVars>>

fetchVars == <<lastFetch>>

vars == <<dlVars, enVars, popVars, csVars, fetchVars>>

(***************************************************************************)
(* Service worker: download scheduling                                    *)
(***************************************************************************)

\* most downloadFiles invocations in progress at once
MaxBatches == 2

\* most candidates in one downloadFiles message
MaxFiles == 3

\* most candidates in one message when several invocations overlap
MaxSchedFiles == 2

BatchIds == 1..MaxBatches

SeqsUpTo(S, n) == UNION {[1..k -> S] : k \in 0..n}

\* a candidate as the scanner builds it and the popup selects it
File(url, filename, extension, inferred) ==
  [url |-> url, filename |-> filename, extension |-> extension,
   isInferredDownload |-> inferred, selected |-> TRUE]

Pdf == <<"p", "d", "f">>
ReportPdf == <<"r", "e", "p", "o", "r", "t", ".", "p", "d", "f">>
Report1Pdf == <<"r", "e", "p", "o", "r", "t", " ", "(", "1", ")", ".", "p", "d", "f">>
Report2Pdf == <<"r", "e", "p", "o", "r", "t", " ", "(", "2", ")", ".", "p", "d", "f">>
Report == <<"r", "e", "p", "o", "r", "t">>

\* the candidates a single invocation is checked with
DLFiles ==
  { File("u1", ReportPdf, Pdf, FALSE),
    File("u2", Report1Pdf, Pdf, FALSE),
    File("u4", <<>>, DownloadName, TRUE),
    File("u5", <<" ", "r", "e", "p", "o", "r", "t", ".", "p", "d", "f", ".">>, Pdf, FALSE),
    File("u6", <<"a", "/", "b", ":", "\t", "c">>, DownloadName, TRUE),
    File("u7", <<".", ".", ".">>, DownloadName, TRUE),
    File("u8", Repeat("x", SanitizeMaxLen - 1) \o <<".", "p", "d", "f">>, Pdf, FALSE),
    Spread(File("u9", Report, DownloadName, TRUE), [finalUrl |-> "u9final"]),
    Spread(File("u11", ReportPdf, Pdf, FALSE), [finalUrl |-> ""]),
    [url |-> "u10", extension |-> DownloadName, isInferredDownload |-> TRUE,
     selected |-> TRUE] }

\* the candidates overlapping invocations are checked with
SchedFiles == { File("u1", ReportPdf, Pdf, FALSE) }

\* filenameCount.get(name) || 0
CountOf(filenameCount, name) ==
  IF name \in DOMAIN filenameCount THEN filenameCount[name] ELSE 0

\* the first loop of downloadFiles, from item i on
RECURSIVE ProcessFrom(_, _, _, _)
ProcessFrom(files, i, filenameCount, processedFiles) ==
  IF i > Len(files) THEN processedFiles
  ELSE LET file          == files[i]
           baseFilename  == sanitizeFilename(Get(file, "filename"))
           count         == CountOf(filenameCount, baseFilename)
           finalFilename == IF count > 0 THEN addFilenameCounter(baseFilename, count)
                            ELSE baseFilename
       IN  ProcessFrom(files, i + 1,
                       Spread(filenameCount, [n \in {baseFilename} |-> count + 1]),
                       Append(processedFiles, Spread(file, [finalFilename |-> finalFilename])))

ProcessFiles(files) == ProcessFrom(files, 1, <<>>, <<>>)

HasKey(obj, key) == key \in DOMAIN obj

downloadFilePrefersUrl(file) ==
  [url      |-> IF file.url # "" THEN file.url ELSE file.finalUrl,
   filename |-> IF HasKey(file, "finalFilename") /\ file.finalFilename # <<>>
                THEN file.finalFilename
                ELSE sanitizeFilename(Get(file, "filename"))]

\* the arguments downloadFile hands to chrome.downloads.download
downloadFile(file) ==
  [url      |-> IF HasKey(file, "finalUrl") /\ file.finalUrl # "" THEN file.finalUrl
                ELSE file.url,
   filename |-> IF HasKey(file, "finalFilename") /\ file.finalFilename # <<>>
                THEN file.finalFilename
                ELSE sanitizeFilename(Get(file, "filename"))]

\* the second loop of downloadFiles from item i on, up to its next await:
\* item i is handed to chrome.downloads.download and the body waits for its
\* callback; past the last item the invocation is finished
DownloadLoopNoAwait(j, files, processedFiles, i, out) ==
  /\ batches' = [batches EXCEPT ![j] =
       [pc |-> "done", files |-> files, processedFiles |-> processedFiles,
        idx |-> Len(processedFiles)]]
  /\ issued' = [issued EXCEPT ![j] =
       @ \o [k \in 1..(Len(processedFiles) + 1 - i) |->
               Spread(downloadFile(processedFiles[i + k - 1]), [item |-> i + k - 1])]]
  /\ outstanding' = out \cup {<<j, k>> : k \in i..Len(processedFiles)}

DownloadLoop(j, files, processedFiles, i, out) ==
  IF i > Len(processedFiles)
  THEN /\ batches' = [batches EXCEPT ![j] =
            [pc |-> "done", files |-> files, processedFiles |-> processedFiles,
             idx |-> Len(processedFiles)]]
       /\ issued' = issued
       /\ outstanding' = out
  ELSE /\ batches' = [batches EXCEPT ![j] =
            [pc |-> "awaitDownload", files |-> files,
             processedFiles |-> processedFiles, idx |-> i]]
       /\ issued' = [issued EXCEPT ![j] =
            Append(@, Spread(downloadFile(processedFiles[i]), [item |-> i]))]
       /\ outstanding' = out \cup {<<j, i>>}

\* downloadFiles(files) up to its first await
downloadFiles(j, files) == DownloadLoop(j, files, ProcessFiles(files), 1, outstanding)

\* the onMessage listener, action 'downloadFiles': downloadFiles is started, not
\* awaited, and the response is sent in the same turn
OnDownloadFilesDeferred(j, files) ==
  /\ batches' = [batches EXCEPT ![j] =
       [pc |-> "sleep", files |-> files, processedFiles |-> ProcessFiles(files),
        idx |-> 0]]
  /\ replied' = [replied EXCEPT ![j] = TRUE]
  /\ UNCHANGED <<issued, outstanding, lastOutcome>>

OnDownloadFilesMessage(j, files) ==
  /\ downloadFiles(j, files)
  /\ replied' = [replied EXCEPT ![j] = TRUE]
  /\ UNCHANGED lastOutcome

\* invocations are numbered in the order their messages arrive
IsNextBatch(j) ==
  /\ batches[j].pc = "idle"
  /\ \A k \in 1..(j - 1) : batches[k].pc # "idle"

\* the promise of downloadFile resolved: the body goes on to sleep(200)
OnDownloadResolved(j, out) ==
  /\ batches' = [batches EXCEPT ![j].pc = "sleep"]
  /\ outstanding' = out
  /\ lastOutcome' = [lastOutcome EXCEPT ![j] = "ok"]
  /\ UNCHANGED <<issued, replied>>

\* the promise of downloadFile rejected: the catch block logs the item and the
\* loop goes on with the next one
OnDownloadRejectedUncaught(j, out) ==
  /\ batches' = [batches EXCEPT ![j].pc = "rejected"]
  /\ outstanding' = out
  /\ lastOutcome' = [lastOutcome EXCEPT ![j] = "error"]
  /\ UNCHANGED <<issued, replied>>

OnDownloadRejected(j, out) ==
  /\ lastOutcome' = [lastOutcome EXCEPT ![j] = "error"]
  /\ DownloadLoop(j, batches[j].files, batches[j].processedFiles,
                  batches[j].idx + 1, out)
  /\ UNCHANGED replied

\* the completion callback of the outstanding chrome.downloads.download call of
\* invocation j fires, with or without chrome.runtime.lastError
DownloadCallback(j, ok) ==
  /\ batches[j].pc = "awaitDownload"
  /\ <<j, batches[j].idx>> \in outstanding
  /\ IF ok THEN OnDownloadResolved(j, outstanding \ {<<j, batches[j].idx>>})
           ELSE OnDownloadRejected(j, outstanding \ {<<j, batches[j].idx>>})

\* the timer of sleep(200) fires: the loop goes on with the next item
SleepElapsed(j) ==
  /\ batches[j].pc = "sleep"
  /\ DownloadLoop(j, batches[j].files, batches[j].processedFiles,
                  batches[j].idx + 1, outstanding)
  /\ UNCHANGED <<lastOutcome, replied>>

IdleBatch == [pc |-> "idle", files |-> <<>>, processedFiles |-> <<>>, idx |-> 0]

InitDownloads ==
  /\ batches = [j \in BatchIds |-> IdleBatch]
  /\ issued = [j \in BatchIds |-> <<>>]
  /\ outstanding = {}
  /\ lastOutcome = [j \in BatchIds |-> "none"]
  /\ replied = [j \in BatchIds |-> FALSE]

(***************************************************************************)
(* Service worker: metadata enrichment                                    *)
(***************************************************************************)

\* most candidates in one enrichFiles message
MaxEnrichFiles == 2

\* most clock advances
MaxTicks == 1

HEAD_CACHE_TTL == 60000

\* the delay of the abort timer of fetchFileMetadata
FetchTimeoutMs == 5000

\* the cache size above which enrichFileMetadata sweeps the cache
CacheSweepSize == 500

\* the length from which /^[a-f0-9-]{32,}$/i matches
HexNameMinLen == 32

\* the amounts the clock advances by: the abort delay, and the TTL of the cache
TickSteps == {FetchTimeoutMs, HEAD_CACHE_TTL}

\* the enrichFilesWithMetadata calls in progress at once: the one of the popup
CallIds == {1}

\* the calls in progress at once when a second enrichFiles message arrives before
\* the first one is answered
OverlapCallIds == {1, 2}

FileName == <<"f", "i", "l", "e">>
Jpg == <<"j", "p", "g">>
PhotoJpg == <<"p", "h", "o", "t", "o", ".", "j", "p", "g">>

HexChars ==
  {"a", "b", "c", "d", "e", "f", "A", "B", "C", "D", "E", "F",
   "0", "1", "2", "3", "4", "5", "6", "7", "8", "9", "-"}

\* filename.match(/^[a-f0-9-]{32,}$/i)
IsHexLike(filename) ==
  /\ Len(filename) >= HexNameMinLen
  /\ \A i \in 1..Len(filename) : filename[i] \in HexChars

\* a candidate as the scanner returns it
Candidate(url, filename, extension, inferred, selected) ==
  [url |-> url, filename |-> filename, extension |-> extension,
   isInferredDownload |-> inferred, selected |-> selected]

\* an inferred download without extension, at u1
CandA == Candidate("u1", Report, DownloadName, TRUE, TRUE)
\* a candidate with the generic name 'file', at u2
CandB == Candidate("u2", FileName, Pdf, FALSE, FALSE)
\* a candidate with a good filename, at the URL of CandA
CandG == Candidate("u1", PhotoJpg, Jpg, FALSE, TRUE)
\* the candidates enrichment calls are checked with
EnrichFiles == {CandA, CandB, CandG}

\* MIME_TO_EXTENSION, the own properties of the object
MIME_TO_EXTENSION ==
  (<<"i", "m", "a", "g", "e", "/", "j", "p", "e", "g">> :> <<"j", "p", "g">>) @@
  (<<"i", "m", "a", "g", "e", "/", "p", "n", "g">> :> <<"p", "n", "g">>) @@
  (<<"i", "m", "a", "g", "e", "/", "g", "i", "f">> :> <<"g", "i", "f">>) @@
  (<<"i", "m", "a", "g", "e", "/", "w", "e", "b", "p">> :> <<"w", "e", "b", "p">>) @@
  (<<"i", "m", "a", "g", "e", "/", "s", "v", "g", "+", "x", "m", "l">> :> <<"s", "v", "g">>) @@
  (<<"i", "m", "a", "g", "e", "/", "b", "m", "p">> :> <<"b", "m", "p">>) @@
  (<<"i", "m", "a", "g", "e", "/", "x", "-", "i", "c", "o", "n">> :> <<"i", "c", "o">>) @@
  (<<"a", "p", "p", "l", "i", "c", "a", "t", "i", "o", "n", "/", "p", "d", "f">> :> <<"p", "d", "f">>) @@
  (<<"a", "p", "p", "l", "i", "c", "a", "t", "i", "o", "n", "/", "m", "s", "w", "o", "r", "d">> :> <<"d", "o", "c">>) @@
  (<<"a", "p", "p", "l", "i", "c", "a", "t", "i", "o", "n", "/", "v", "n", "d", ".", "o", "p", "e", "n", "x", "m", "l", "f", "o", "r", "m", "a", "t", "s", "-", "o", "f", "f", "i", "c", "e", "d", "o", "c", "u", "m", "e", "n", "t", ".", "w", "o", "r", "d", "p", "r", "o", "c", "e", "s", "s", "i", "n", "g", "m", "l", ".", "d", "o", "c", "u", "m", "e", "n", "t">> :> <<"d", "o", "c", "x">>) @@
  (<<"a", "p", "p", "l", "i", "c", "a", "t", "i", "o", "n", "/", "v", "n", "d", ".", "m", "s", "-", "e", "x", "c", "e", "l">> :> <<"x", "l", "s">>) @@
  (<<"a", "p", "p", "l", "i", "c", "a", "t", "i", "o", "n", "/", "v", "n", "d", ".", "o", "p", "e", "n", "x", "m", "l", "f", "o", "r", "m", "a", "t", "s", "-", "o", "f", "f", "i", "c", "e", "d", "o", "c", "u", "m", "e", "n", "t", ".", "s", "p", "r", "e", "a", "d", "s", "h", "e", "e", "t", "m", "l", ".", "s", "h", "e", "e", "t">> :> <<"x", "l", "s", "x">>) @@
  (<<"a", "p", "p", "l", "i", "c", "a", "t", "i", "o", "n", "/", "v", "n", "d", ".", "m", "s", "-", "p", "o", "w", "e", "r", "p", "o", "i", "n", "t">> :> <<"p", "p", "t">>) @@
  (<<"a", "p", "p", "l", "i", "c", "a", "t", "i", "o", "n", "/", "v", "n", "d", ".", "o", "p", "e", "n", "x", "m", "l", "f", "o", "r", "m", "a", "t", "s", "-", "o", "f", "f", "i", "c", "e", "d", "o", "c", "u", "m", "e", "n", "t", ".", "p", "r", "e", "s", "e", "n", "t", "a", "t", "i", "o", "n", "m", "l", ".", "p", "r", "e", "s", "e", "n", "t", "a", "t", "i", "o", "n">> :> <<"p", "p", "t", "x">>) @@
  (<<"t", "e", "x", "t", "/", "p", "l", "a", "i", "n">> :> <<"t", "x", "t">>) @@
  (<<"a", "p", "p", "l", "i", "c", "a", "t", "i", "o", "n", "/", "r", "t", "f">> :> <<"r", "t", "f">>) @@
  (<<"v", "i", "d", "e", "o", "/", "m", "p", "4">> :> <<"m", "p", "4">>) @@
  (<<"v", "i", "d", "e", "o", "/", "w", "e", "b", "m">> :> <<"w", "e", "b", "m">>) @@
  (<<"v", "i", "d", "e", "o", "/", "x", "-", "m", "s", "v", "i", "d", "e", "o">> :> <<"a", "v", "i">>) @@
  (<<"v", "i", "d", "e", "o", "/", "q", "u", "i", "c", "k", "t", "i", "m", "e">> :> <<"m", "o", "v">>) @@
  (<<"v", "i", "d", "e", "o", "/", "x", "-", "m", "a", "t", "r", "o", "s", "k", "a">> :> <<"m", "k", "v">>) @@
  (<<"v", "i", "d", "e", "o", "/", "x", "-", "f", "l", "v">> :> <<"f", "l", "v">>) @@
  (<<"v", "i", "d", "e", "o", "/", "x", "-", "m", "s", "-", "w", "m", "v">> :> <<"w", "m", "v">>) @@
  (<<"a", "u", "d", "i", "o", "/", "m", "p", "e", "g">> :> <<"m", "p", "3">>) @@
  (<<"a", "u", "d", "i", "o", "/", "w", "a", "v">> :> <<"w", "a", "v">>) @@
  (<<"a", "u", "d", "i", "o", "/", "o", "g", "g">> :> <<"o", "g", "g">>) @@
  (<<"a", "u", "d", "i", "o", "/", "f", "l", "a", "c">> :> <<"f", "l", "a", "c">>) @@
  (<<"a", "u", "d", "i", "o", "/", "a", "a", "c">> :> <<"a", "a", "c">>) @@
  (<<"a", "u", "d", "i", "o", "/", "m", "p", "4">> :> <<"m", "4", "a">>) @@
  (<<"a", "p", "p", "l", "i", "c", "a", "t", "i", "o", "n", "/", "z", "i", "p">> :> <<"z", "i", "p">>) @@
  (<<"a", "p", "p", "l", "i", "c", "a", "t", "i", "o", "n", "/", "x", "-", "r", "a", "r", "-", "c", "o", "m", "p", "r", "e", "s", "s", "e", "d">> :> <<"r", "a", "r">>) @@
  (<<"a", "p", "p", "l", "i", "c", "a", "t", "i", "o", "n", "/", "x", "-", "7", "z", "-", "c", "o", "m", "p", "r", "e", "s", "s", "e", "d">> :> <<"7", "z">>) @@
  (<<"a", "p", "p", "l", "i", "c", "a", "t", "i", "o", "n", "/", "x", "-", "t", "a", "r">> :> <<"t", "a", "r">>) @@
  (<<"a", "p", "p", "l", "i", "c", "a", "t", "i", "o", "n", "/", "g", "z", "i", "p">> :> <<"g", "z">>) @@
  (<<"a", "p", "p", "l", "i", "c", "a", "t", "i", "o", "n", "/", "x", "-", "b", "z", "i", "p", "2">> :> <<"b", "z", "2">>) @@
  (<<"f", "o", "n", "t", "/", "t", "t", "f">> :> <<"t", "t", "f">>) @@
  (<<"f", "o", "n", "t", "/", "o", "t", "f">> :> <<"o", "t", "f">>) @@
  (<<"f", "o", "n", "t", "/", "w", "o", "f", "f">> :> <<"w", "o", "f", "f">>) @@
  (<<"f", "o", "n", "t", "/", "w", "o", "f", "f", "2">> :> <<"w", "o", "f", "f", "2">>) @@
  (<<"a", "p", "p", "l", "i", "c", "a", "t", "i", "o", "n", "/", "v", "n", "d", ".", "m", "s", "-", "f", "o", "n", "t", "o", "b", "j", "e", "c", "t">> :> <<"e", "o", "t">>)

\* the values a property lookup on an object literal finds on Object.prototype
\* under a lower-case key: the function Object and the prototype itself
ObjectFunction == <<"function Object">>
ObjectPrototype == <<"Object.prototype">>
InheritedProperties ==
  (<<"c", "o", "n", "s", "t", "r", "u", "c", "t", "o", "r">> :> ObjectFunction) @@ (<<"_", "_", "p", "r", "o", "t", "o", "_", "_">> :> ObjectPrototype)

\* MIME_TO_EXTENSION[mimeType]
MimeLookup(mimeType) ==
  IF mimeType \in DOMAIN MIME_TO_EXTENSION THEN MIME_TO_EXTENSION[mimeType]
  ELSE IF mimeType \in DOMAIN InheritedProperties THEN InheritedProperties[mimeType]
  ELSE Undefined

\* the string a template literal makes of a value
StringOf(value) ==
  IF value = ObjectFunction THEN <<"f", "u", "n", "c", "t", "i", "o", "n", " ", "O", "b", "j", "e", "c", "t", "(", ")", " ", "{", " ", "[", "n", "a", "t", "i", "v", "e", " ", "c", "o", "d", "e", "]", " ", "}">>
  ELSE IF value = ObjectPrototype THEN <<"[", "o", "b", "j", "e", "c", "t", " ", "O", "b", "j", "e", "c", "t", "]">>
  ELSE value

HexDigits == Digits \cup {"a", "b", "c", "d", "e", "f", "A", "B", "C", "D", "E", "F"}

\* whether decodeURIComponent throws: a % that no two hexadecimal digits follow
IsMalformedUri(s) ==
  \E i \in 1..Len(s) :
    /\ s[i] = "%"
    /\ ~(i + 2 <= Len(s) /\ s[i + 1] \in HexDigits /\ s[i + 2] \in HexDigits)

\* the position after key, optional whitespace, = and optional whitespace, when
\* the header has them from position i on, in any case of the letters; 0 otherwise
AfterKey(header, key, i) ==
  LET AfterEquals(eq) ==
        IF eq <= Len(header) /\ header[eq] = "="
        THEN FirstWhere(header, WhitespaceChars, FALSE, eq + 1) ELSE 0
  IN  IF MatchesAt(toLowerCase(header), key, i)
      THEN AfterEquals(FirstWhere(header, WhitespaceChars, FALSE, i + Len(key)))
      ELSE 0

\* the capture of header.match(/filename\*\s*=\s*(?:UTF-8|utf-8)?''(.+?)(?:;|$)/i)
\* when the match starts at position i, <<>> when there is none there
Rfc5987At(header, i) ==
  LET Capture(start) ==
        IF start <= Len(header)
        THEN SubSeq(header, start, FirstWhere(header, {";"}, TRUE, start + 1) - 1)
        ELSE <<>>
      AfterCharset(p) ==
        IF MatchesAt(header, <<"'", "'">>, p) THEN Capture(p + 2) ELSE <<>>
      AfterValue(p) ==
        IF p = 0 THEN <<>>
        ELSE IF MatchesAt(toLowerCase(header), <<"u", "t", "f", "-", "8", "'", "'">>, p) THEN AfterCharset(p + 5)
        ELSE AfterCharset(p)
  IN  AfterValue(AfterKey(header, <<"f", "i", "l", "e", "n", "a", "m", "e", "*">>, i))

\* the capture of header.match(/filename\s*=\s*"([^"]+)"/i) at position i
QuotedAt(header, i) ==
  LET Capture(p, close) ==
        IF close <= Len(header) /\ close > p + 1 THEN SubSeq(header, p + 1, close - 1)
        ELSE <<>>
      AfterValue(p) ==
        IF p = 0 \/ p > Len(header) THEN <<>>
        ELSE IF header[p] = "\"" THEN Capture(p, FirstWhere(header, {"\""}, TRUE, p + 1))
        ELSE <<>>
  IN  AfterValue(AfterKey(header, <<"f", "i", "l", "e", "n", "a", "m", "e">>, i))

\* the capture of header.match(/filename\s*=\s*([^;\s]+)/i) at position i
UnquotedAt(header, i) ==
  LET AfterValue(p) ==
        IF p = 0 THEN <<>>
        ELSE SubSeq(header, p, FirstWhere(header, {";"} \cup WhitespaceChars, TRUE, p) - 1)
  IN  AfterValue(AfterKey(header, <<"f", "i", "l", "e", "n", "a", "m", "e">>, i))

\* the capture of header.match(/name\s*=\s*"?([^";\s]+)"?/i) at position i
InlineAt(header, i) ==
  LET Capture(start) ==
        SubSeq(header, start,
               FirstWhere(header, {"\"", ";"} \cup WhitespaceChars, TRUE, start) - 1)
      AfterValue(p) ==
        IF p = 0 THEN <<>>
        ELSE IF p <= Len(header) /\ header[p] = "\"" THEN Capture(p + 1)
        ELSE Capture(p)
  IN  AfterValue(AfterKey(header, <<"n", "a", "m", "e">>, i))

\* the capture of the leftmost match of one of the four patterns, <<>> when the
\* pattern matches nowhere
FirstMatch(header, rule) ==
  LET At(i) == IF rule = "rfc5987" THEN Rfc5987At(header, i)
               ELSE IF rule = "quoted" THEN QuotedAt(header, i)
               ELSE IF rule = "unquoted" THEN UnquotedAt(header, i)
               ELSE InlineAt(header, i)
      Leftmost(starts) ==
        IF starts = {} THEN <<>>
        ELSE At(CHOOSE i \in starts : \A k \in starts : i <= k)
  IN  Leftmost({i \in 1..Len(header) : At(i) # <<>>})

parseContentDisposition(header) ==
  LET Rules(rfc5987Match, quotedMatch, unquotedMatch, inlineMatch) ==
        IF rfc5987Match # <<>> /\ ~IsMalformedUri(Trim(rfc5987Match))
        THEN decodeURIComponent(Trim(rfc5987Match))
        ELSE IF quotedMatch # <<>> THEN Trim(quotedMatch)
        ELSE IF unquotedMatch # <<>> THEN Trim(unquotedMatch)
        ELSE IF inlineMatch # <<>> THEN Trim(inlineMatch)
        ELSE Null
  IN  IF ~Truthy(header) THEN Null
      ELSE Rules(FirstMatch(header, "rfc5987"), FirstMatch(header, "quoted"),
                 FirstMatch(header, "unquoted"), FirstMatch(header, "inline"))

\* extractFilenameFromUrl(url) of the service worker
extractFilenameFromUrl(url) ==
  LET Name(lastPart) ==
        IF IsMalformedUri(lastPart) THEN Null
        ELSE Split(decodeURIComponent(lastPart), "?")[1]
      Last(pathParts) ==
        IF pathParts = <<>> THEN Null ELSE Name(pathParts[Len(pathParts)])
  IN  IF url \notin DOMAIN UrlTable THEN Null
      ELSE Last(SelectSeq(Split(UrlTable[url].pathname, "/"), LAMBDA p : p # <<>>))

\* the value of a string of decimal digits
RECURSIVE DigitsValue(_, _)
DigitsValue(s, n) ==
  IF n = 0 THEN 0
  ELSE 10 * DigitsValue(s, n - 1)
         + (CHOOSE d \in 0..9 : ToDigits(d) = <<s[n]>>)

\* parseInt(str, 10) for a string without sign and leading whitespace
parseInt(str) ==
  LET Parsed(end) == IF end = 1 THEN <<"NaN">> ELSE DigitsValue(str, end - 1)
  IN  Parsed(FirstWhere(str, Digits, FALSE, 1))

\* the response of a HEAD request: whether the status is a success, the headers
\* the code reads (null when absent) and the URL after redirects
Response(ok, contentDisposition, contentType, contentLength, url) ==
  [ok |-> ok, contentDisposition |-> contentDisposition, contentType |-> contentType,
   contentLength |-> contentLength, url |-> url]

\* an object with one property, and with none when the value is undefined
Property(key, value) ==
  IF value = Undefined THEN <<>> ELSE [k \in {key} |-> value]

\* the capture of the extension pattern in lower case, undefined without a match
ExtensionOf(filename) ==
  LET Lowered(match) == IF match = <<>> THEN Undefined ELSE toLowerCase(match)
  IN  Lowered(ExtensionMatch(filename))

fetchFileMetadataTypeNeedsNoFilename(url, response) ==
  LET \* lines 217-228
      Named(filename) ==
        IF Truthy(filename)
        THEN Spread([filename |-> filename], Property("extension", ExtensionOf(filename)))
        ELSE <<>>
      FromDisposition ==
        IF Truthy(response.contentDisposition)
        THEN Named(parseContentDisposition(response.contentDisposition))
        ELSE <<>>
      \* lines 231-242
      Typed(metadata, extFromMime) ==
        IF ~Truthy(extFromMime) THEN metadata
        ELSE IF Truthy(Get(metadata, "filename"))
        THEN Spread(metadata, [extension |-> extFromMime])
        ELSE Spread(metadata, [extension |-> extFromMime,
                               filename |-> <<"f", "i", "l", "e", ".">> \o StringOf(extFromMime)])
      FromType(metadata) ==
        IF Truthy(response.contentType) /\ ~Truthy(Get(metadata, "filename"))
        THEN Typed(metadata,
                   MimeLookup(toLowerCase(Trim(Split(response.contentType, ";")[1]))))
        ELSE metadata
      \* lines 245-248
      FromLength(metadata) ==
        IF Truthy(response.contentLength)
        THEN Spread(metadata, [size |-> parseInt(response.contentLength)])
        ELSE metadata
      \* lines 251-264
      Redirected(metadata, finalFilename) ==
        IF Truthy(finalFilename) /\ finalFilename # DownloadName
        THEN Spread(Spread(metadata, [filename |-> finalFilename]),
                    Property("extension", ExtensionOf(finalFilename)))
        ELSE metadata
      FromUrl(metadata) ==
        IF response.url = url THEN metadata
        ELSE IF Truthy(Get(metadata, "filename"))
        THEN Spread(metadata, [finalUrl |-> response.url])
        ELSE Redirected(Spread(metadata, [finalUrl |-> response.url]),
                        extractFilenameFromUrl(response.url))
  IN  IF ~response.ok THEN Threw
      ELSE Returned(FromUrl(FromLength(FromType(FromDisposition))))

\* fetchFileMetadata(url) when the request is answered with the response
fetchFileMetadata(url, response) ==
  LET \* lines 217-228
      Named(filename) ==
        IF Truthy(filename)
        THEN Spread([filename |-> filename], Property("extension", ExtensionOf(filename)))
        ELSE <<>>
      FromDisposition ==
        IF Truthy(response.contentDisposition)
        THEN Named(parseContentDisposition(response.contentDisposition))
        ELSE <<>>
      \* lines 231-242
      Typed(metadata, extFromMime) ==
        IF ~Truthy(extFromMime) THEN metadata
        ELSE IF Truthy(Get(metadata, "filename"))
        THEN Spread(metadata, [extension |-> extFromMime])
        ELSE Spread(metadata, [extension |-> extFromMime,
                               filename |-> <<"f", "i", "l", "e", ".">> \o StringOf(extFromMime)])
      FromType(metadata) ==
        IF Truthy(response.contentType) /\ ~Truthy(Get(metadata, "extension"))
        THEN Typed(metadata,
                   MimeLookup(toLowerCase(Trim(Split(response.contentType, ";")[1]))))
        ELSE metadata
      \* lines 245-248
      FromLength(metadata) ==
        IF Truthy(response.contentLength)
        THEN Spread(metadata, [size |-> parseInt(response.contentLength)])
        ELSE metadata
      \* lines 251-264
      Redirected(metadata, finalFilename) ==
        IF Truthy(finalFilename) /\ finalFilename # DownloadName
        THEN Spread(Spread(metadata, [filename |-> finalFilename]),
                    Property("extension", ExtensionOf(finalFilename)))
        ELSE metadata
      FromUrl(metadata) ==
        IF response.url = url THEN metadata
        ELSE IF Truthy(Get(metadata, "filename"))
        THEN Spread(metadata, [finalUrl |-> response.url])
        ELSE Redirected(Spread(metadata, [finalUrl |-> response.url]),
                        extractFilenameFromUrl(response.url))
  IN  IF ~response.ok THEN Threw
      ELSE Returned(FromUrl(FromLength(FromType(FromDisposition))))

\* the response each URL of the enrichment calls is answered with when its probe
\* succeeds
ServerResponse(url) ==
  IF url = "u1"
  THEN Response(TRUE, <<"a", "t", "t", "a", "c", "h", "m", "e", "n", "t", ";", " ", "f", "i", "l", "e", "n", "a", "m", "e", "=", "\"", "r", "e", "p", "o", "r", "t", ".", "p", "d", "f", "\"">>, Null, <<"1", "0", "2", "4">>, url)
  ELSE Response(TRUE, Null, Null, Null, "final")

\* what fetchFileMetadata returns for a URL when its probe succeeds: an object
\* with some of the keys filename, extension, size, finalUrl
ServerMetadata(url) == fetchFileMetadata(url, ServerResponse(url)).value

hasGoodFilename(file) ==
  /\ file.filename # <<>>
  /\ file.extension # <<>>
  /\ file.extension # DownloadName
  /\ ~file.isInferredDownload
  /\ file.filename # FileName
  /\ ~IsHexLike(file.filename)

CacheHitWithinAbortDelay(url) ==
  /\ url \in DOMAIN headCache
  /\ now - headCache[url].timestamp < FetchTimeoutMs

CacheHitAtTtl(url) ==
  /\ url \in DOMAIN headCache
  /\ now - headCache[url].timestamp <= HEAD_CACHE_TTL

\* cached && Date.now() - cached.timestamp < HEAD_CACHE_TTL
CacheHit(url) ==
  /\ url \in DOMAIN headCache
  /\ now - headCache[url].timestamp < HEAD_CACHE_TTL

Pending == [status |-> "pending"]
Fulfilled(value) == [status |-> "fulfilled", value |-> value]

enrichFileMetadataCacheFirst(file) ==
  IF CacheHit(file.url) THEN Fulfilled(Spread(file, headCache[file.url].data))
  ELSE IF hasGoodFilename(file) THEN Fulfilled(file)
  ELSE Pending

\* enrichFileMetadata(file) up to its first await: the promise it returns is
\* fulfilled at once for a good filename or a cache hit, pending otherwise
enrichFileMetadata(file) ==
  IF hasGoodFilename(file) THEN Fulfilled(file)
  ELSE IF CacheHit(file.url) THEN Fulfilled(Spread(file, headCache[file.url].data))
  ELSE Pending

\* cleanupCache
cleanupCache(cache, time) ==
  [u \in {k \in DOMAIN cache : ~(time - cache[k].timestamp > HEAD_CACHE_TTL)} |-> cache[u]]

CacheAfterSetNoSweep(url, metadata) ==
  Spread(headCache, [u \in {url} |-> [timestamp |-> now, data |-> metadata]])

\* headCache.set and the sweep that follows it
CacheAfterSet(url, metadata) ==
  LET set == Spread(headCache, [u \in {url} |-> [timestamp |-> now, data |-> metadata]])
  IN  IF Cardinality(DOMAIN set) > CacheSweepSize THEN cleanupCache(set, now) ELSE set

\* the array enrichFilesWithMetadata returns from the settled promises
SettledResults(files, results) ==
  [i \in 1..Len(results) |->
     IF results[i].status = "fulfilled" THEN results[i].value ELSE files[i]]

AllSettled(results) == \A i \in 1..Len(results) : results[i].status # "pending"

\* the promise of item i of call c settles; when it is the last one,
\* Promise.allSettled resolves and the listener sends the response
SettleInCompletionOrder(c, i, result) ==
  LET first   == CHOOSE k \in 1..Len(calls[c].results) :
                   /\ calls[c].results[k].status = "pending"
                   /\ \A m \in 1..(k - 1) : calls[c].results[m].status # "pending"
      results == [calls[c].results EXCEPT ![first] = result]
  IN  calls' = [calls EXCEPT ![c] =
        IF AllSettled(results)
        THEN [pc |-> "returned", files |-> calls[c].files, results |-> results,
              response |-> SettledResults(calls[c].files, results)]
        ELSE [@ EXCEPT !.results = results]]

Settle(c, i, result) ==
  LET results == [calls[c].results EXCEPT ![i] = result]
  IN  calls' = [calls EXCEPT ![c] =
        IF AllSettled(results)
        THEN [pc |-> "returned", files |-> calls[c].files, results |-> results,
              response |-> SettledResults(calls[c].files, results)]
        ELSE [@ EXCEPT !.results = results]]

\* enrichFilesWithMetadata(files) up to its await: every enrichFileMetadata call
\* has run to its first await, and a HEAD request is in flight for each pending one
enrichFilesWithMetadata(c, files) ==
  LET results == [i \in 1..Len(files) |-> enrichFileMetadata(files[i])]
  IN  /\ calls' = [calls EXCEPT ![c] =
           IF AllSettled(results)
           THEN [pc |-> "returned", files |-> files, results |-> results,
                 response |-> SettledResults(files, results)]
           ELSE [pc |-> "running", files |-> files, results |-> results,
                 response |-> <<>>]]
      /\ probes' = {p \in probes : p.call # c} \cup
           {[call |-> c, index |-> i, url |-> files[i].url, started |-> now,
             state |-> "inflight"] :
              i \in {k \in 1..Len(files) : results[k].status = "pending"}}

\* the onMessage listener, action 'enrichFiles'
OnEnrichFilesMessage(c, files) ==
  /\ enrichFilesWithMetadata(c, files)
  /\ UNCHANGED <<headCache, now, ticks>>

\* what enrichFileMetadata returns when fetchFileMetadata threw
FailedResultMarked(file) == Fulfilled(Spread(file, [enriched |-> TRUE]))

FailedResult(file) == Fulfilled(file)

SucceededResultFileWins(file, metadata) ==
  Fulfilled(Spread(Spread(metadata, file), [enriched |-> TRUE]))

SucceededResultDeselects(file, metadata) ==
  Fulfilled(Spread(Spread(file, metadata), [enriched |-> TRUE, selected |-> FALSE]))

\* what enrichFileMetadata returns when fetchFileMetadata returned metadata
SucceededResult(file, metadata) ==
  Fulfilled(Spread(Spread(file, metadata), [enriched |-> TRUE]))

InFlight == {p \in probes : p.state = "inflight"}

\* the request of probe p ends in the given state
Finish(p, state) == probes' = (probes \ {p}) \cup {[p EXCEPT !.state = state]}

\* the HEAD request of a probe is answered with a success status
ProbeSucceeds(p) ==
  /\ p \in InFlight
  /\ LET metadata == ServerMetadata(p.url)
     IN  /\ headCache' = CacheAfterSet(p.url, metadata)
         /\ Settle(p.call, p.index,
                   SucceededResult(calls[p.call].files[p.index], metadata))
  /\ Finish(p, "ok")
  /\ UNCHANGED <<now, ticks>>

ProbeFailsCached(p) ==
  /\ p \in InFlight
  /\ headCache' = CacheAfterSet(p.url, [k \in {} |-> k])
  /\ Settle(p.call, p.index, FailedResult(calls[p.call].files[p.index]))
  /\ Finish(p, "failed")
  /\ UNCHANGED <<now, ticks>>

\* the HEAD request of a probe fails: a network error, or a status that is not ok
ProbeFails(p) ==
  /\ p \in InFlight
  /\ Settle(p.call, p.index, FailedResult(calls[p.call].files[p.index]))
  /\ Finish(p, "failed")
  /\ UNCHANGED <<headCache, now, ticks>>

ProbeTimesOutNoAbort(p) ==
  /\ p \in InFlight
  /\ now >= p.started + FetchTimeoutMs
  /\ UNCHANGED <<headCache, now, ticks, calls, probes>>

\* the abort timer of a probe fires and the request is aborted
ProbeTimesOut(p) ==
  /\ p \in InFlight
  /\ now >= p.started + FetchTimeoutMs
  /\ Settle(p.call, p.index, FailedResult(calls[p.call].files[p.index]))
  /\ Finish(p, "aborted")
  /\ UNCHANGED <<headCache, now, ticks>>

\* time passes
Tick(d) ==
  /\ ticks < MaxTicks
  /\ now' = now + d
  /\ ticks' = ticks + 1
  /\ UNCHANGED <<headCache, calls, probes>>

IdleCall == [pc |-> "idle", files |-> <<>>, results |-> <<>>, response |-> <<>>]

InitEnrichment ==
  /\ headCache = <<>>
  /\ now = 0
  /\ ticks = 0
  /\ calls = [c \in OverlapCallIds |-> IdleCall]
  /\ probes = {}

\* an inferred download named 'Report', without extension
CandR == Candidate("u1", <<"R", "e", "p", "o", "r", "t">>, DownloadName, TRUE, FALSE)

\* the candidates the probe is checked with
ProbeFiles == {CandA, CandB, CandR}

\* the header value attachment; filename="report.pdf"
AttachmentReportPdf ==
  <<"a", "t", "t", "a", "c", "h", "m", "e", "n", "t", ";", " ", "f", "i", "l", "e", "n", "a", "m", "e", "=", "\"", "r", "e", "p", "o", "r", "t", ".", "p", "d", "f", "\"">>

\* the header values the probe is checked with
ContentDispositions ==
  { Null, AttachmentReportPdf,
    <<"a", "t", "t", "a", "c", "h", "m", "e", "n", "t">>, <<"a", "t", "t", "a", "c", "h", "m", "e", "n", "t", ";", " ", "f", "i", "l", "e", "n", "a", "m", "e", "=", "\"", "R", "e", "p", "o", "r", "t", ".", "P", "D", "F", "\"">>,
    <<"a", "t", "t", "a", "c", "h", "m", "e", "n", "t", ";", " ", "f", "i", "l", "e", "n", "a", "m", "e", "=", "r", "e", "p", "o", "r", "t">>, <<"i", "n", "l", "i", "n", "e", ";", " ", "n", "a", "m", "e", "=", "a", ".", "b", "-", "c">>,
    <<"a", "t", "t", "a", "c", "h", "m", "e", "n", "t", ";", " ", "f", "i", "l", "e", "n", "a", "m", "e", "*", "=", "U", "T", "F", "-", "8", "'", "'", "m", "y", "%", "2", "0", "f", "i", "l", "e", ".", "P", "d", "f">> }

ContentTypes ==
  {Null, <<"a", "p", "p", "l", "i", "c", "a", "t", "i", "o", "n", "/", "p", "d", "f">>, <<"I", "m", "a", "g", "e", "/", "J", "P", "E", "G", ";", " ", "c", "h", "a", "r", "s", "e", "t", "=", "b", "i", "n", "a", "r", "y">>, <<"t", "e", "x", "t", "/", "h", "t", "m", "l">>,
   <<"c", "o", "n", "s", "t", "r", "u", "c", "t", "o", "r">>}

ContentLengths == {Null, <<"1", "0", "2", "4">>}

\* the responses to the probe of a URL: from that URL or from the URL a redirect
\* led to
Responses(url) ==
  { Response(ok, contentDisposition, contentType, contentLength, finalUrl) :
      ok \in BOOLEAN, contentDisposition \in ContentDispositions,
      contentType \in ContentTypes, contentLength \in ContentLengths,
      finalUrl \in {url, "final", "https://cdn/files/Setup.EXE"} }

\* enrichFileMetadata for a candidate without a good filename and without a
\* cache entry, when the probe is answered with the response
EnrichWith(file, response) ==
  LET Result(metadata) ==
        IF metadata.threw THEN FailedResult(file)
        ELSE SucceededResult(file, metadata.value)
  IN  Result(fetchFileMetadata(file.url, response))

\* enrichFileMetadata sends the probe of a candidate
ProbeSent(file) ==
  /\ \A fetch \in Range(lastFetch) : HasKey(fetch, "result")
  /\ lastFetch' = <<[file |-> file]>>

\* the probe is answered and enrichFileMetadata returns
ProbeAnswered(response) ==
  /\ lastFetch # <<>>
  /\ ~HasKey(lastFetch[1], "result")
  /\ lastFetch' = <<[file |-> lastFetch[1].file, response |-> response,
                     result |-> EnrichWith(lastFetch[1].file, response).value]>>

InitFetch == lastFetch = <<>>

(***************************************************************************)
(* Popup                                                                  *)
(***************************************************************************)

\* most candidates in one scan result
MaxScan == 2

FILE_TYPES ==
  [images |->
     {<<"j", "p", "g">>, <<"j", "p", "e", "g">>, <<"p", "n", "g">>,
      <<"g", "i", "f">>, <<"w", "e", "b", "p">>, <<"s", "v", "g">>,
      <<"b", "m", "p">>, <<"i", "c", "o">>},
   documents |->
     {<<"p", "d", "f">>, <<"d", "o", "c">>, <<"d", "o", "c", "x">>,
      <<"x", "l", "s">>, <<"x", "l", "s", "x">>, <<"p", "p", "t">>,
      <<"p", "p", "t", "x">>, <<"t", "x", "t">>, <<"r", "t", "f">>,
      <<"o", "d", "t">>, <<"o", "d", "s">>},
   videos |->
     {<<"m", "p", "4">>, <<"w", "e", "b", "m">>, <<"a", "v", "i">>,
      <<"m", "o", "v">>, <<"m", "k", "v">>, <<"f", "l", "v">>,
      <<"w", "m", "v">>},
   audio |->
     {<<"m", "p", "3">>, <<"w", "a", "v">>, <<"o", "g", "g">>,
      <<"f", "l", "a", "c">>, <<"a", "a", "c">>, <<"m", "4", "a">>},
   archives |->
     {<<"z", "i", "p">>, <<"r", "a", "r">>, <<"7", "z">>, <<"t", "a", "r">>,
      <<"g", "z">>, <<"b", "z", "2">>},
   fonts |->
     {<<"t", "t", "f">>, <<"o", "t", "f">>, <<"w", "o", "f", "f">>,
      <<"w", "o", "f", "f", "2">>, <<"e", "o", "t">>},
   downloads |->
     {<<"d", "o", "w", "n", "l", "o", "a", "d">>}]

\* the values of the filter the popup is checked with
FilterValues == {"all", "documents"}

\* a candidate with a good filename at a URL of its own
CandP == Candidate("u3", PhotoJpg, Jpg, FALSE, FALSE)

\* the candidates a scan of the page returns, each with selected: false
ScanFiles == {[CandA EXCEPT !.selected = FALSE], CandB, CandP}

\* the results of a scan: the scanner keeps one candidate per URL
ScanLists ==
  {l \in SeqsUpTo(ScanFiles, MaxScan) :
     \A i \in 1..Len(l), k \in 1..Len(l) : i # k => l[i].url # l[k].url}

\* files.findIndex(f => f.url === url), 0 when there is none
FindIndexByUrl(fs, url) ==
  IF \E i \in 1..Len(fs) : fs[i].url = url
  THEN CHOOSE i \in 1..Len(fs) :
         /\ fs[i].url = url
         /\ \A k \in 1..(i - 1) : fs[k].url # url
  ELSE 0

\* new Map(entries).get(url): the value of the last entry with that key
MapGet(fs, url) ==
  fs[CHOOSE i \in 1..Len(fs) :
       /\ fs[i].url = url
       /\ \A k \in (i + 1)..Len(fs) : fs[k].url # url]

MapHas(fs, url) == \E i \in 1..Len(fs) : fs[i].url = url

\* the array filteredFiles that applyFilter computes
FilteredBy(fs, filter) ==
  IF filter = "all"
  THEN [i \in 1..Len(fs) |-> i]
  ELSE LET extensions == FILE_TYPES[filter]
           Listed(i) == toLowerCase(fs[i].extension) \in extensions
       IN  SelectSeq([i \in 1..Len(fs) |-> i], Listed)

\* applyFilter(), which ends with renderFiles(), when files is fs and the
\* filter has the given value
applyFilter(fs, filter) ==
  /\ filteredFiles' = FilteredBy(fs, filter)
  /\ rows' = Len(FilteredBy(fs, filter))

Event(name) == [name |-> name, files |-> <<>>]

handleFilesChangedNoCarry(newFiles) ==
  LET mapped == [i \in 1..Len(newFiles) |-> Spread(newFiles[i], [selected |-> FALSE])]
  IN  /\ popupFiles' = mapped
      /\ applyFilter(mapped, filterValue)

\* handleFilesChanged(newFiles)
handleFilesChanged(newFiles) ==
  LET mapped == [i \in 1..Len(newFiles) |->
                   Spread(newFiles[i],
                          [selected |-> IF MapHas(popupFiles, newFiles[i].url)
                                        THEN MapGet(popupFiles, newFiles[i].url).selected
                                        ELSE FALSE])]
  IN  /\ popupFiles' = mapped
      /\ applyFilter(mapped, filterValue)

\* the onMessage listener of the popup, for a filesChanged message of the tab
OnFilesChanged(newFiles) ==
  /\ popupPc # "init"
  /\ handleFilesChanged(newFiles)
  /\ lastEvent' = [name |-> "filesChanged", files |-> newFiles]
  /\ UNCHANGED <<popupPc, filterValue, enrichPc>>

\* the test of the filter in enrichFiles
needsEnrichment(f) ==
  \/ f.isInferredDownload
  \/ f.extension = DownloadName
  \/ f.extension = <<>>
  \/ f.filename = FileName
  \/ IsHexLike(f.filename)

\* enrichFiles(filesToEnrich) up to its await
enrichFiles(filesToEnrich) ==
  LET filesNeedingEnrichment == SelectSeq(filesToEnrich, needsEnrichment)
  IN  IF Len(filesNeedingEnrichment) = 0
      THEN enrichPc' = "done" /\ UNCHANGED enVars
      ELSE /\ enrichPc' = "awaiting"
           /\ OnEnrichFilesMessage(1, filesNeedingEnrichment)

\* scanPage() after chrome.tabs.query has resolved
TabQueried ==
  /\ popupPc = "init"
  /\ popupPc' = "scanning"
  /\ lastEvent' = Event("tabQueried")
  /\ UNCHANGED <<popupFiles, filteredFiles, filterValue, rows, enrichPc>>

\* scanPage() after the scanFiles message has been answered
ScanResponse(results) ==
  /\ popupPc = "scanning"
  /\ popupPc' = "ready"
  /\ lastEvent' = Event("scan")
  /\ IF Len(results) > 0
     THEN /\ popupFiles' = results
          /\ filteredFiles' = [i \in 1..Len(results) |-> i]
          /\ rows' = Len(results)
          /\ enrichFiles(results)
     ELSE /\ rows' = 0
          /\ UNCHANGED <<popupFiles, filteredFiles, enrichPc, enVars>>
  /\ UNCHANGED filterValue

\* scanPage() when the scanFiles message fails
ScanFails ==
  /\ popupPc = "scanning"
  /\ popupPc' = "ready"
  /\ rows' = 0
  /\ lastEvent' = Event("scanFailed")
  /\ UNCHANGED <<popupFiles, filteredFiles, filterValue, enrichPc>>

\* the change listener of the checkbox of row index
OnCheckboxChange(index, checked) ==
  /\ index \in 1..rows
  /\ LET first     == [popupFiles EXCEPT ![filteredFiles[index]].selected = checked]
         fileUrl   == first[filteredFiles[index]].url
         mainIndex == FindIndexByUrl(first, fileUrl)
     IN  popupFiles' = IF mainIndex # 0
                       THEN [first EXCEPT ![mainIndex].selected = checked]
                       ELSE first
  /\ lastEvent' = Event("checkbox")
  /\ UNCHANGED <<popupPc, filteredFiles, filterValue, rows, enrichPc>>

\* toggleSelectAll()
toggleSelectAll(shouldSelect) ==
  /\ popupFiles' =
       [i \in 1..Len(popupFiles) |->
          IF \E k \in 1..Len(filteredFiles) :
               \/ filteredFiles[k] = i
               \/ FindIndexByUrl(popupFiles, popupFiles[filteredFiles[k]].url) = i
          THEN [popupFiles[i] EXCEPT !.selected = shouldSelect]
          ELSE popupFiles[i]]
  /\ rows' = Len(filteredFiles)
  /\ lastEvent' = Event("selectAll")
  /\ UNCHANGED <<popupPc, filteredFiles, filterValue, enrichPc>>

\* the change listener of the filter
OnFilterChange(value) ==
  /\ filterValue' = value
  /\ applyFilter(popupFiles, value)
  /\ UNCHANGED popupFiles
  /\ lastEvent' = Event("filter")
  /\ UNCHANGED <<popupPc, enrichPc>>

MergeEnrichedStale(fs, responseFiles) ==
  [i \in 1..Len(fs) |->
     IF MapHas(responseFiles, fs[i].url)
     THEN Spread(fs[i], MapGet(responseFiles, fs[i].url))
     ELSE fs[i]]

\* the array files after the merge of the response of the service worker
MergeEnriched(fs, responseFiles) ==
  [i \in 1..Len(fs) |->
     IF MapHas(responseFiles, fs[i].url)
     THEN Spread(Spread(fs[i], MapGet(responseFiles, fs[i].url)),
                 [selected |-> fs[i].selected])
     ELSE fs[i]]

\* enrichFiles() after the enrichFiles message has been answered
EnrichResponse ==
  /\ enrichPc = "awaiting"
  /\ calls[1].pc = "returned"
  /\ enrichPc' = "done"
  /\ popupFiles' = MergeEnriched(popupFiles, calls[1].response)
  /\ applyFilter(MergeEnriched(popupFiles, calls[1].response), filterValue)
  /\ UNCHANGED filterValue
  /\ lastEvent' = Event("merge")
  /\ UNCHANGED popupPc

\* enrichFiles() when the enrichFiles message fails
EnrichRequestFails ==
  /\ enrichPc = "awaiting"
  /\ enrichPc' = "done"
  /\ lastEvent' = Event("mergeFailed")
  /\ UNCHANGED <<popupPc, popupFiles, filteredFiles, filterValue, rows>>

InitPopup ==
  /\ popupPc = "init"
  /\ popupFiles = <<>>
  /\ filteredFiles = <<>>
  /\ filterValue = "all"
  /\ rows = 0
  /\ enrichPc = "none"
  /\ lastEvent = Event("open")

(***************************************************************************)
(* Content script: filename resolution and download-intent detection      *)
(***************************************************************************)

\* the length cleanFilename cuts a name to
CleanMaxLen == 80

\* the longest string isUsefulFilename accepts
UsefulMaxLen == 100

\* the longest heading or page title extractFilenameFromPage accepts
PageNameMaxLen == 60

\* the parent levels extractFilenameFromContext visits
ContextDepth == 3

uselessNames ==
  {<<"d", "o", "w", "n", "l", "o", "a", "d">>, <<"d", "l">>, <<"g", "e", "t">>, <<"s", "a", "v", "e">>, <<"e", "x", "p", "o", "r", "t">>, <<"f", "i", "l", "e">>, <<"c", "l", "i", "c", "k", " ", "h", "e", "r", "e">>,
   <<"c", "l", "i", "c", "k", " ", "t", "o", " ", "d", "o", "w", "n", "l", "o", "a", "d">>, <<"d", "o", "w", "n", "l", "o", "a", "d", " ", "f", "i", "l", "e">>, <<"d", "o", "w", "n", "l", "o", "a", "d", " ", "n", "o", "w">>, <<"g", "e", "t", " ", "f", "i", "l", "e">>,
   <<"s", "a", "v", "e", " ", "f", "i", "l", "e">>, <<"h", "e", "r", "e">>, <<"l", "i", "n", "k">>, <<"b", "u", "t", "t", "o", "n">>}

isUsefulFilename(str) ==
  LET Useful(normalized) ==
        normalized \notin uselessNames /\ Len(normalized) <= UsefulMaxLen
  IN  IF str = Null \/ str = <<>> \/ Len(str) < 2 THEN FALSE
      ELSE Useful(Trim(toLowerCase(str)))

\* the character class [<>:"/\\|?*] of cleanFilename
CleanInvalidChars == {"<", ">", ":", "\"", "/", "\\", "|", "?", "*"}

cleanFilename(str) ==
  LET trimmed    == Trim(str)
      unbroken   == CollapseRuns(trimmed, {"\r", "\n"}, " ")
      collapsed  == CollapseRuns(unbroken, WhitespaceChars, " ")
      replaced   == ReplaceEach(collapsed, CleanInvalidChars, "-")
  IN  Slice(replaced, 0, CleanMaxLen)

\* title.match(/^\d+\s*[KMG]?B?$/i)
IsFileSize(str) ==
  LET Unit(afterSpace) == toLowerCase(SubSeq(str, afterSpace, Len(str)))
      Sized(afterDigits) ==
        /\ afterDigits > 1
        /\ Unit(FirstWhere(str, WhitespaceChars, FALSE, afterDigits))
             \in {<<>>, <<"k">>, <<"m">>, <<"g">>, <<"b">>, <<"k", "b">>, <<"m", "b">>, <<"g", "b">>}
  IN  Sized(FirstWhere(str, Digits, FALSE, 1))

extractExtensionFromFilenameUnchecked(filename) ==
  LET Extension(match) == IF match # <<>> THEN match ELSE DownloadName
  IN  Extension(toLowerCase(ExtensionMatch(filename)))

extractExtensionFromFilename(filename) ==
  LET Extension(match) ==
        IF match # <<>> /\ match \in SUPPORTED_EXTENSIONS THEN match ELSE DownloadName
  IN  Extension(toLowerCase(ExtensionMatch(filename)))

\* the first element of a sequence of strings that is not null, null when none
FirstFound(candidates) ==
  IF \E i \in 1..Len(candidates) : candidates[i] # Null
  THEN candidates[CHOOSE i \in 1..Len(candidates) :
                    /\ candidates[i] # Null
                    /\ \A k \in 1..(i - 1) : candidates[k] = Null]
  ELSE Null

\* the parameter names extractFilenameFromQuery tries, in order
filenameParams == <<"f", "file", "name", "filename", "fn", "title", "n", "font">>

extractFilenameFromQuery(href) ==
  LET Cleaned(value, cleaned) ==
        IF value # Null /\ value # <<>> /\ Len(value) >= 2 /\ Len(value) <= UsefulMaxLen
           /\ isUsefulFilename(cleaned)
        THEN cleanFilename(cleaned) ELSE Null
      FromValue(value) ==
        Cleaned(value, Trim(CollapseRuns(CollapseRuns(value, {"_", "-"}, " "),
                                         WhitespaceChars, " ")))
  IN  FirstFound([i \in 1..Len(filenameParams) |->
                    FromValue(SearchParam(UrlTable[href], filenameParams[i]))])

\* extractFilenameFromContext(anchor): anchor.parents lists, from the parent
\* element upwards, the text of the first heading and of the first title-like
\* element below each ancestor (null when there is none)
extractFilenameFromContext(anchor) ==
  LET depth == IF Len(anchor.parents) < ContextDepth THEN Len(anchor.parents)
               ELSE ContextDepth
      Heading(raw, text) ==
        IF raw # Null /\ isUsefulFilename(text) /\ text # Trim(anchor.textContent)
        THEN cleanFilename(text) ELSE Null
      TitleEl(raw, text) ==
        IF raw # Null /\ isUsefulFilename(text) THEN cleanFilename(text) ELSE Null
      FromParent(parent, isHeading) ==
        IF isHeading THEN Heading(parent.heading, Trim(parent.heading))
        ELSE TitleEl(parent.titleEl, Trim(parent.titleEl))
  IN  FirstFound([i \in 1..(2 * depth) |->
                    FromParent(anchor.parents[(i + 1) \div 2], i % 2 = 1)])

\* representatives of the separators extractFilenameFromPage splits the title at
TitleSeparators == {"-", "|"}

\* extractFilenameFromPage(): page holds the text of the first h1 (null when
\* there is none) and document.title
extractFilenameFromPage(page) ==
  LET Name(h1Text, cleaned) ==
        IF h1Text # Null /\ isUsefulFilename(h1Text) /\ Len(h1Text) <= PageNameMaxLen
        THEN cleanFilename(h1Text)
        ELSE IF page.title # <<>> /\ isUsefulFilename(cleaned)
                /\ Len(cleaned) <= PageNameMaxLen
        THEN cleanFilename(cleaned)
        ELSE Null
  IN  Name(IF page.h1 = Null THEN Null ELSE Trim(page.h1),
           Trim(SubSeq(page.title, 1,
                       FirstWhere(page.title, TitleSeparators, TRUE, 1) - 1)))

\* extractFilenameFromUrl(url) of the content script
extractFilenameFromUrlPath(url) ==
  LET LastPart(pathParts) ==
        IF pathParts # <<>> /\ Len(pathParts[Len(pathParts)]) < UsefulMaxLen
        THEN decodeURIComponent(pathParts[Len(pathParts)])
        ELSE Null
  IN  LastPart(SelectSeq(Split(UrlTable[url].pathname, "/"), LAMBDA p : p # <<>>))

\* whether an attribute name makes extractBestFilename look at the attribute
IsNameAttribute(name) == Includes(name, <<"f", "i", "l", "e", "n", "a", "m", "e">>) \/ Includes(name, <<"n", "a", "m", "e">>)

extractBestFilenameTextFirst(anchor, href, page) ==
  LET title     == anchor.title
      ariaLabel == anchor.ariaLabel
      FromAttr(attr) ==
        IF IsNameAttribute(attr.name) /\ attr.value # <<>> /\ isUsefulFilename(attr.value)
        THEN cleanFilename(attr.value) ELSE Null
      Best(fromAttrs, anchorText, queryFilename, contextFilename, pageFilename,
           urlFilename) ==
        IF isUsefulFilename(anchorText) THEN cleanFilename(anchorText)
        ELSE IF title # Null /\ title # <<>> /\ isUsefulFilename(title) /\ ~IsFileSize(title)
        THEN cleanFilename(title)
        ELSE IF fromAttrs # Null THEN fromAttrs
        ELSE IF ariaLabel # Null /\ ariaLabel # <<>> /\ isUsefulFilename(ariaLabel)
        THEN cleanFilename(ariaLabel)
        ELSE IF queryFilename # Null /\ queryFilename # <<>> THEN queryFilename
        ELSE IF contextFilename # Null /\ contextFilename # <<>> THEN contextFilename
        ELSE IF pageFilename # Null /\ pageFilename # <<>> THEN pageFilename
        ELSE IF urlFilename # Null /\ urlFilename # <<>> /\ isUsefulFilename(urlFilename)
        THEN urlFilename
        ELSE DownloadName
  IN  Best(FirstFound([i \in 1..Len(anchor.attributes) |-> FromAttr(anchor.attributes[i])]),
           Trim(anchor.textContent),
           extractFilenameFromQuery(href),
           extractFilenameFromContext(anchor),
           extractFilenameFromPage(page),
           extractFilenameFromUrlPath(href))

extractBestFilename(anchor, href, page) ==
  LET title     == anchor.title
      ariaLabel == anchor.ariaLabel
      FromAttr(attr) ==
        IF IsNameAttribute(attr.name) /\ attr.value # <<>> /\ isUsefulFilename(attr.value)
        THEN cleanFilename(attr.value) ELSE Null
      Best(fromAttrs, anchorText, queryFilename, contextFilename, pageFilename,
           urlFilename) ==
        IF title # Null /\ title # <<>> /\ isUsefulFilename(title) /\ ~IsFileSize(title)
        THEN cleanFilename(title)
        ELSE IF fromAttrs # Null THEN fromAttrs
        ELSE IF isUsefulFilename(anchorText) THEN cleanFilename(anchorText)
        ELSE IF ariaLabel # Null /\ ariaLabel # <<>> /\ isUsefulFilename(ariaLabel)
        THEN cleanFilename(ariaLabel)
        ELSE IF queryFilename # Null /\ queryFilename # <<>> THEN queryFilename
        ELSE IF contextFilename # Null /\ contextFilename # <<>> THEN contextFilename
        ELSE IF pageFilename # Null /\ pageFilename # <<>> THEN pageFilename
        ELSE IF urlFilename # Null /\ urlFilename # <<>> /\ isUsefulFilename(urlFilename)
        THEN urlFilename
        ELSE DownloadName
  IN  Best(FirstFound([i \in 1..Len(anchor.attributes) |-> FromAttr(anchor.attributes[i])]),
           Trim(anchor.textContent),
           extractFilenameFromQuery(href),
           extractFilenameFromContext(anchor),
           extractFilenameFromPage(page),
           extractFilenameFromUrlPath(href))

downloadPathPatterns ==
  {<<"/", "d", "o", "w", "n", "l", "o", "a", "d">>, <<"/", "g", "e", "t", "/">>, <<"/", "f", "e", "t", "c", "h", "/">>, <<"/", "f", "i", "l", "e", "/">>, <<"/", "f", "i", "l", "e", "s", "/">>, <<"/", "d", "l", "/">>, <<"/", "d", "/">>}

downloadTextPatterns == {<<"d", "o", "w", "n", "l", "o", "a", "d">>, <<"g", "e", "t", " ", "f", "i", "l", "e">>, <<"s", "a", "v", "e">>, <<"e", "x", "p", "o", "r", "t">>}

\* detectDownloadLink(anchor, href): a sequence holding the candidate, empty for
\* null; anchor.download is the value of the download attribute, null without it
detectDownloadLink(anchor, href, page) ==
  LET pathname   == toLowerCase(UrlTable[href].pathname)
      anchorTextLower == toLowerCase(Trim(anchor.textContent))
      hasDownloadPath == \E pattern \in downloadPathPatterns : Includes(pathname, pattern)
      hasDownloadText ==
        \E pattern \in downloadTextPatterns : Includes(anchorTextLower, pattern)
      hasDownloadClass == Includes(toLowerCase(anchor.className), <<"d", "o", "w", "n", "l", "o", "a", "d">>)
      hasDownloadData ==
        \E i \in 1..Len(anchor.attributes) :
          /\ MatchesAt(anchor.attributes[i].name, <<"d", "a", "t", "a", "-">>, 1)
          /\ Includes(toLowerCase(anchor.attributes[i].value), <<"d", "o", "w", "n", "l", "o", "a", "d">>)
      Inferred(filename) ==
        <<[url |-> href, filename |-> filename,
           extension |-> extractExtensionFromFilename(filename),
           isInferredDownload |-> TRUE]>>
      Detected(bestFilename) ==
        IF anchor.download # Null THEN Inferred(Or(anchor.download, bestFilename))
        ELSE IF hasDownloadPath \/ hasDownloadText \/ hasDownloadClass \/ hasDownloadData
        THEN Inferred(bestFilename)
        ELSE <<>>
  IN  Detected(extractBestFilename(anchor, href, page))

(***************************************************************************)
(* Content script: scanning the document                                  *)
(***************************************************************************)

\* an element the scanner looks at: url is its href, src or data property, the
\* resolved URL, null when the attribute is missing
Element(tag, url) == [tag |-> tag, url |-> url]

\* an anchor with the attributes and the surroundings the scanner reads
Anchor(href, title, textContent) ==
  [tag |-> "a", url |-> href, title |-> title, textContent |-> textContent,
   ariaLabel |-> Null, className |-> <<>>, download |-> Null,
   attributes |-> <<>>, parents |-> <<>>, hrefAttribute |-> <<href>>]

\* the URL of the page
PageUrl == "https://x/page"

\* anchor.href for the value of the href attribute: an absolute URL as it is, a
\* fragment resolved against the URL of the page
ResolveHref(attribute) ==
  IF startsWith(attribute, "#") THEN PageUrl \o attribute ELSE attribute

\* an anchor whose href attribute has the given value
AnchorTo(attribute, textContent, className, attributes) ==
  [Anchor(ResolveHref(attribute), Null, textContent) EXCEPT
     !.hrefAttribute = <<attribute>>, !.className = className,
     !.attributes = attributes]

\* an anchor without href attribute: its href property is the empty string
AnchorWithoutHref(textContent, className, attributes) ==
  [Anchor("", Null, textContent) EXCEPT
     !.hrefAttribute = <<>>, !.className = className, !.attributes = attributes]

\* scanAnchorTags, for one element matching a[href]
VisitAnchor(files, anchor, page) ==
  LET href == anchor.url
      Visit(fileInfo, downloadInfo) ==
        IF href = "" \/ startsWith(href, "javascript:") \/ startsWith(href, "#")
        THEN files
        ELSE IF fileInfo # <<>> /\ isSupported(fileInfo[1].extension)
        THEN MapSet(files, href, fileInfo[1])
        ELSE IF downloadInfo # <<>> THEN MapSet(files, href, downloadInfo[1])
        ELSE files
  IN  Visit(extractFileInfo(href), detectDownloadLink(anchor, href, page))

\* scanImageTags, scanMediaTags and scanEmbedTags, for one URL of an element
\* matching their selectors
VisitSource(files, url) ==
  LET Visit(fileInfo) ==
        IF fileInfo # <<>> /\ isSupported(fileInfo[1].extension)
        THEN MapSet(files, url, fileInfo[1])
        ELSE files
  IN  Visit(extractFileInfo(url))

\* the second loop of scanImageTags for one image: el.srcset lists the URLs
\* parseSrcset returns for it
RECURSIVE VisitSrcset(_, _, _)
VisitSrcset(files, urls, i) ==
  IF i > Len(urls) THEN files
  ELSE VisitSrcset(VisitSource(files, urls[i]), urls, i + 1)

\* the tags each scan function selects
TagsOf ==
  [anchors |-> {"a"}, images |-> {"img"}, srcsets |-> {"img"},
   media |-> {"video", "audio", "source"}, embeds |-> {"object", "embed"}]

\* one scan function over the elements of a root, in document order, from
\* element i on
RECURSIVE ScanTags(_, _, _, _, _)
ScanTags(files, elements, i, kind, page) ==
  IF i > Len(elements) THEN files
  ELSE LET el == elements[i]
           next == IF el.tag \notin TagsOf[kind] THEN files
                   ELSE IF kind = "anchors" /\ el.hrefAttribute = <<>> THEN files
                   ELSE IF kind = "srcsets"
                   THEN IF HasKey(el, "srcset") THEN VisitSrcset(files, el.srcset, 1)
                        ELSE files
                   ELSE IF kind = "anchors" THEN VisitAnchor(files, el, page)
                   ELSE IF kind = "images" /\ UrlTable[el.url].protocol = "data:" THEN files
                   ELSE VisitSource(files, el.url)
       IN  ScanTags(next, elements, i + 1, kind, page)

\* the scan functions of a root one after the other, from the k-th on
RECURSIVE ScanKinds(_, _, _, _, _)
ScanKinds(files, root, kinds, k, page) ==
  IF k > Len(kinds) THEN files
  ELSE ScanKinds(ScanTags(files, root.elements, 1, kinds[k], page), root, kinds, k + 1, page)

\* scanAnchorTags, scanImageTags, scanMediaTags and scanEmbedTags on one root
ScanRoot(files, root, page) ==
  ScanKinds(files, root, <<"anchors", "images", "srcsets", "media", "embeds">>, 1, page)

RECURSIVE ScanRoots(_, _, _, _)
ScanRoots(files, roots, i, page) ==
  IF i > Len(roots) THEN files
  ELSE ScanRoots(ScanRoot(files, roots[i], page), roots, i + 1, page)

\* getAllRoots(root): the root and, in document order, the shadow roots of its
\* hosts, each with its own shadow roots
RECURSIVE getAllRoots(_)
RECURSIVE RootsOfHosts(_, _)
RootsOfHosts(hosts, i) ==
  IF i > Len(hosts) THEN <<>>
  ELSE getAllRoots(hosts[i]) \o RootsOfHosts(hosts, i + 1)

getAllRoots(root) == <<root>> \o RootsOfHosts(root.hosts, 1)

\* iframe.contentDocument || iframe.contentWindow?.document
ContentDocument(iframe) ==
  IF iframe.crossOrigin THEN Threw ELSE Returned(iframe.root)

ScanIframeUncaught(files, iframe, page) ==
  LET iframeDoc == ContentDocument(iframe)
  IN  IF iframeDoc.threw THEN Threw
      ELSE Returned(ScanRoots(files, getAllRoots(iframeDoc.value), 1, page))

\* the body of the loop of scanIframes for one iframe, with its try and catch
ScanIframe(files, iframe, page) ==
  LET iframeDoc == ContentDocument(iframe)
  IN  IF iframeDoc.threw THEN Returned(files)
      ELSE Returned(ScanRoots(files, getAllRoots(iframeDoc.value), 1, page))

RECURSIVE scanIframes(_, _, _, _)
scanIframes(files, iframes, i, page) ==
  LET Continue(step) ==
        IF step.threw THEN Threw
        ELSE scanIframes(step.value, iframes, i + 1, page)
  IN  IF i > Len(iframes) THEN Returned(files)
      ELSE Continue(ScanIframe(files, iframes[i], page))

\* scanForFiles() on a document
scanForFiles(doc) ==
  LET Result(inIframes) ==
        IF inIframes.threw THEN Threw
        ELSE Returned([i \in 1..Len(inIframes.value) |->
                         Spread(inIframes.value[i].value, [selected |-> FALSE])])
  IN  Result(scanIframes(ScanRoots(<<>>, getAllRoots(doc.root), 1, doc.page),
                         doc.iframes, 1, doc.page))

(***************************************************************************)
(* Content script: the page and the scanFiles request                     *)
(***************************************************************************)

\* most elements the scanner looks at on the page
MaxElements == 2

\* the scanFiles requests counted on an unchanged page
MaxRescans == 2

\* a root with its elements in document order and the shadow roots of its hosts
Root(elements, hosts) == [elements |-> elements, hosts |-> hosts]

\* an iframe of the origin of the page, with the root of its document
Iframe(root) == [crossOrigin |-> FALSE, root |-> root]

\* the elements the page is built from
PageElements ==
  { Anchor("https://x/docs/Report.PDF", Null, <<"R", "e", "p", "o", "r", "t">>),
    Element("embed", "https://x/docs/Report.PDF"),
    Spread(Element("img", "https://x/img/photo.jpg"),
           [srcset |-> <<"https://x/img/photo.jpg", "https://x/docs/Report.PDF">>]),
    Anchor("https://x/download/123", <<"A", "n", "n", "u", "a", "l", " ", "R", "e", "p", "o", "r", "t">>, <<"D", "o", "w", "n", "l", "o", "a", "d">>),
    Anchor("https://x/download/123", <<" ", " ">>, <<>>),
    [Anchor("https://x/", Null, <<>>) EXCEPT !.download = <<>>],
    Element("video", "https://x/media?format=MP4"),
    Anchor("https://x/page", Null, <<"A", "b", "o", "u", "t">>) }

\* anchors with download cues in their text, class or data-* attributes: one
\* without href, one with a javascript: href, two with a bare fragment as href
CuedAnchors ==
  { AnchorWithoutHref(<<"D", "o", "w", "n", "l", "o", "a", "d", " ", "r", "e", "p", "o", "r", "t">>, <<"d", "o", "w", "n", "l", "o", "a", "d", "-", "b", "t", "n">>, <<>>),
    AnchorTo("javascript:void(0)", <<"D", "o", "w", "n", "l", "o", "a", "d">>, <<>>,
             <<[name |-> <<"d", "a", "t", "a", "-", "a", "c", "t", "i", "o", "n">>, value |-> <<"d", "o", "w", "n", "l", "o", "a", "d">>]>>),
    AnchorTo("#", <<"D", "o", "w", "n", "l", "o", "a", "d">>, <<"b", "t", "n", " ", "d", "o", "w", "n", "l", "o", "a", "d">>, <<>>),
    AnchorTo("#downloads", <<"F", "i", "l", "e", "s">>, <<>>,
             <<[name |-> <<"d", "a", "t", "a", "-", "r", "o", "l", "e">>, value |-> <<"d", "o", "w", "n", "l", "o", "a", "d", "-", "l", "i", "s", "t">>]>>) }

\* the elements a page with such anchors is built from
AnchorElements ==
  CuedAnchors
    \cup {Anchor("https://x/docs/Report.PDF", Null, <<"R", "e", "p", "o", "r", "t">>),
          Anchor("https://x/", <<"n", "o", "t", "e", "s", ".", "x", "y", "z">>, <<"D", "o", "w", "n", "l", "o", "a", "d">>),
          [Anchor("https://x/download/123", Null, <<"G", "e", "t", " ", "i", "t">>) EXCEPT
             !.download = <<"R", "e", "p", "o", "r", "t", ".", "P", "D", "F">>]}

\* where on the page an element can be: the main document, a shadow root of it,
\* the first iframe, the second iframe
Places == {"main", "shadow", "frame1", "frame2"}

\* and deeper: an iframe of the document of the second iframe, an iframe in the
\* shadow root
DeepPlaces == {"nested", "shadowFrame"}

\* the page with one more element at the end of a place
WithElement(doc, place, el) ==
  IF place = "main" THEN [doc EXCEPT !.root.elements = Append(@, el)]
  ELSE IF place = "shadow" THEN [doc EXCEPT !.root.hosts[1].elements = Append(@, el)]
  ELSE IF place = "frame1" THEN [doc EXCEPT !.iframes[1].root.elements = Append(@, el)]
  ELSE IF place = "frame2" THEN [doc EXCEPT !.iframes[2].root.elements = Append(@, el)]
  ELSE IF place = "nested"
  THEN [doc EXCEPT !.iframes[2].iframes[1].root.elements = Append(@, el)]
  ELSE [doc EXCEPT !.root.hosts[1].iframes[1].root.elements = Append(@, el)]

\* the elements of a root and of the shadow roots below it
RECURSIVE ElementsBelow(_)
RECURSIVE ElementsBelowHosts(_, _)
ElementsBelowHosts(hosts, i) ==
  IF i > Len(hosts) THEN <<>>
  ELSE ElementsBelow(hosts[i]) \o ElementsBelowHosts(hosts, i + 1)

ElementsBelow(root) == root.elements \o ElementsBelowHosts(root.hosts, 1)

\* how many elements the page has
ElementCount(doc) ==
  Len(ElementsBelow(doc.root))
    + Len(ElementsBelow(doc.iframes[1].root)) + Len(ElementsBelow(doc.iframes[2].root))
    + Len(ElementsBelow(doc.iframes[2].iframes[1].root))
    + Len(ElementsBelow(doc.root.hosts[1].iframes[1].root))

\* the page changes: an element is added
AddElement(place, el) ==
  /\ ElementCount(document) < MaxElements
  /\ document' = WithElement(document, place, el)
  /\ scanResponse' = <<>>
  /\ rescans' = 0

\* the page changes: the first iframe navigates to another origin, or back
FrameNavigates ==
  /\ document' = [document EXCEPT !.iframes[1].crossOrigin = ~@]
  /\ scanResponse' = <<>>
  /\ rescans' = 0

OnScanFilesIncremental ==
  LET files == scanForFiles(document)
      known == IF scanResponse = <<>> \/ files.threw THEN {}
               ELSE {scanResponse[1].value[i].url : i \in 1..Len(scanResponse[1].value)}
  IN  /\ rescans < MaxRescans
      /\ scanResponse' =
           <<IF files.threw THEN files
             ELSE Returned(SelectSeq(files.value, LAMBDA f : f.url \notin known))>>
      /\ rescans' = rescans + 1
      /\ UNCHANGED document

\* the onMessage listener of the content script, action 'scanFiles'
OnScanFiles ==
  /\ rescans < MaxRescans
  /\ scanResponse' = <<scanForFiles(document)>>
  /\ rescans' = rescans + 1
  /\ UNCHANGED document

InitScan ==
  /\ document =
       [root    |-> Root(<<>>, <<[elements |-> <<>>, hosts |-> <<>>,
                                  iframes |-> <<Iframe(Root(<<>>, <<>>))>>]>>),
        iframes |-> <<Iframe(Root(<<>>, <<>>)),
                      [crossOrigin |-> FALSE, root |-> Root(<<>>, <<>>),
                       iframes |-> <<Iframe(Root(<<>>, <<>>))>>]>>,
        page    |-> [h1 |-> Null, title |-> <<>>]]
  /\ scanResponse = <<>>
  /\ rescans = 0

(***************************************************************************)
(* Content script: live scanning                                          *)
(***************************************************************************)

\* the delay of the debounce timer, in milliseconds
DebounceMs == 500

\* the step in which time passes while the page is watched
LiveTickMs == DebounceMs \div 2

\* how many such steps pass
MaxLiveTicks == 4

\* most relevant mutation batches between two publications
MaxBurst == 2

\* most mutation records in a batch
MaxRecords == 2

relevantTags == {<<"a">>, <<"i", "m", "g">>, <<"v", "i", "d", "e", "o">>, <<"a", "u", "d", "i", "o">>, <<"s", "o", "u", "r", "c", "e">>, <<"o", "b", "j", "e", "c", "t">>, <<"e", "m", "b", "e", "d">>}

relevantAttrs == {"href", "src", "srcset", "data", "download"}

isRelevantElement(element) == toLowerCase(element.tagName) \in relevantTags

\* element.relevant is the number of descendants matching the selector
hasRelevantDescendants(element) == element.relevant > 0

\* the mutation records the observer is handed: added nodes, and changes of the
\* attributes of its attributeFilter
MutationRecords ==
  { [type |-> "childList",
     addedNodes |-> <<[nodeType |-> "element", tagName |-> <<"A">>, relevant |-> 0]>>],
    [type |-> "childList",
     addedNodes |-> <<[nodeType |-> "element", tagName |-> <<"D", "I", "V">>, relevant |-> 1]>>],
    [type |-> "childList",
     addedNodes |-> <<[nodeType |-> "element", tagName |-> <<"D", "I", "V">>, relevant |-> 0]>>],
    [type |-> "childList",
     addedNodes |-> <<[nodeType |-> "text"],
                      [nodeType |-> "element", tagName |-> <<"S", "P", "A", "N">>, relevant |-> 0]>>],
    [type |-> "childList", addedNodes |-> <<>>],
    [type |-> "attributes", attributeName |-> "href"] }

MutationBatches == UNION {[1..n -> MutationRecords] : n \in 1..MaxRecords}

\* the loop of the observer callback that computes hasRelevantChanges
hasRelevantChanges(mutations) ==
  \E i \in 1..Len(mutations) :
    IF mutations[i].type = "childList"
    THEN \E k \in 1..Len(mutations[i].addedNodes) :
           /\ mutations[i].addedNodes[k].nodeType = "element"
           /\ \/ isRelevantElement(mutations[i].addedNodes[k])
              \/ hasRelevantDescendants(mutations[i].addedNodes[k])
    ELSE mutations[i].type = "attributes"
         /\ mutations[i].attributeName \in relevantAttrs

\* clearTimeout(id): the armed timers without the one the id names; an id of
\* null or of a timer that fired or was cleared names none
ClearTimeout(armed, id) == armed \ Range(id)

enableLiveScanUnguarded ==
  /\ liveScanEnabled' = TRUE
  /\ observer' = TRUE
  /\ observing' = IF observing < 2 THEN observing + 1 ELSE observing
  /\ UNCHANGED <<pendingChanges, debounceTimer, timers>>

enableLiveScan ==
  IF observer THEN UNCHANGED <<liveScanEnabled, observer, observing, pendingChanges,
                               debounceTimer, timers>>
  ELSE /\ liveScanEnabled' = TRUE
       /\ observer' = TRUE
       /\ observing' = observing + 1
       /\ UNCHANGED <<pendingChanges, debounceTimer, timers>>

disableLiveScanKeepsTimer ==
  /\ liveScanEnabled' = FALSE
  /\ observer' = FALSE
  /\ observing' = IF observer THEN observing - 1 ELSE observing
  /\ pendingChanges' = FALSE
  /\ UNCHANGED <<debounceTimer, timers>>

disableLiveScan ==
  /\ liveScanEnabled' = FALSE
  /\ observer' = FALSE
  /\ observing' = IF observer THEN observing - 1 ELSE observing
  /\ timers' = ClearTimeout(timers, debounceTimer)
  /\ pendingChanges' = FALSE
  /\ UNCHANGED debounceTimer

\* the onMessage listener of the content script, action 'enableLiveScan'
OnEnableLiveScan ==
  /\ enableLiveScan
  /\ liveEvent' = [name |-> "enable", pending |-> pendingChanges]
  /\ UNCHANGED <<publications, burst>>

\* the onMessage listener of the content script, action 'disableLiveScan'
OnDisableLiveScan ==
  /\ disableLiveScan
  /\ liveEvent' = [name |-> "disable", pending |-> pendingChanges]
  /\ burst' = <<>>
  /\ UNCHANGED publications

ObserverCallbackNoTimer(mutations) ==
  /\ observing > 0
  /\ Len(burst) < MaxBurst
  /\ liveEvent' = [name |-> "mutations", pending |-> pendingChanges]
  /\ IF hasRelevantChanges(mutations)
     THEN /\ pendingChanges' = TRUE
          /\ timers' = ClearTimeout(timers, debounceTimer)
          /\ debounceTimer' = <<>>
          /\ burst' = Append(burst, now)
     ELSE UNCHANGED <<pendingChanges, timers, debounceTimer, burst>>
  /\ UNCHANGED <<liveScanEnabled, observer, observing, publications>>

ObserverCallbackNoFlag(mutations) ==
  /\ observing > 0
  /\ Len(burst) < MaxBurst
  /\ liveEvent' = [name |-> "mutations", pending |-> pendingChanges]
  /\ IF hasRelevantChanges(mutations)
     THEN /\ timers' = ClearTimeout(timers, debounceTimer) \cup {now + DebounceMs}
          /\ debounceTimer' = <<now + DebounceMs>>
          /\ burst' = Append(burst, now)
          /\ UNCHANGED pendingChanges
     ELSE UNCHANGED <<pendingChanges, timers, debounceTimer, burst>>
  /\ UNCHANGED <<liveScanEnabled, observer, observing, publications>>

ObserverCallbackNoClear(mutations) ==
  /\ observing > 0
  /\ Len(burst) < MaxBurst
  /\ liveEvent' = [name |-> "mutations", pending |-> pendingChanges]
  /\ IF hasRelevantChanges(mutations)
     THEN /\ pendingChanges' = TRUE
          /\ timers' = timers \cup {now + DebounceMs}
          /\ debounceTimer' = <<now + DebounceMs>>
          /\ burst' = Append(burst, now)
     ELSE UNCHANGED <<pendingChanges, timers, debounceTimer, burst>>
  /\ UNCHANGED <<liveScanEnabled, observer, observing, publications>>

\* the callback of the MutationObserver, handed a batch of mutation records; a
\* timer is named by the time it is due
ObserverCallback(mutations) ==
  /\ observing > 0
  /\ Len(burst) < MaxBurst
  /\ liveEvent' = [name |-> "mutations", pending |-> pendingChanges]
  /\ IF hasRelevantChanges(mutations)
     THEN /\ pendingChanges' = TRUE
          /\ timers' = ClearTimeout(timers, debounceTimer) \cup {now + DebounceMs}
          /\ debounceTimer' = <<now + DebounceMs>>
          /\ burst' = Append(burst, now)
     ELSE UNCHANGED <<pendingChanges, timers, debounceTimer, burst>>
  /\ UNCHANGED <<liveScanEnabled, observer, observing, publications>>

DebounceTimeoutRetries(timer) ==
  /\ timer \in timers
  /\ now >= timer
  /\ liveEvent' = [name |-> "timeout", pending |-> pendingChanges]
  /\ IF pendingChanges
     THEN \E delivered \in BOOLEAN :
            /\ publications' =
                 Append(publications, [at |-> now, burst |-> burst,
                                       files |-> scanForFiles(document).value,
                                       delivered |-> delivered])
            /\ pendingChanges' = ~delivered
            /\ timers' = (timers \ {timer}) \cup
                           (IF delivered THEN {} ELSE {now + DebounceMs})
            /\ debounceTimer' = IF delivered THEN debounceTimer ELSE <<now + DebounceMs>>
            /\ burst' = IF delivered THEN <<>> ELSE burst
     ELSE /\ timers' = timers \ {timer}
          /\ UNCHANGED <<pendingChanges, publications, burst, debounceTimer>>
  /\ UNCHANGED <<liveScanEnabled, observer, observing>>

\* the callback of the debounce timer: it runs when the timer is due or later;
\* the promise of chrome.runtime.sendMessage is fulfilled when a popup receives
\* the message and rejected when none is open, and its catch handler does nothing
DebounceTimeout(timer) ==
  LET Sent(scan, delivered) ==
        IF scan.threw THEN publications
        ELSE Append(publications, [at |-> now, burst |-> burst, files |-> scan.value,
                                   delivered |-> delivered])
  IN  /\ timer \in timers
      /\ now >= timer
      /\ timers' = timers \ {timer}
      /\ liveEvent' = [name |-> "timeout", pending |-> pendingChanges]
      /\ IF pendingChanges
         THEN /\ pendingChanges' = FALSE
              /\ \E delivered \in BOOLEAN :
                   publications' = Sent(scanForFiles(document), delivered)
              /\ burst' = <<>>
         ELSE UNCHANGED <<pendingChanges, publications, burst>>
      /\ UNCHANGED <<liveScanEnabled, observer, observing, debounceTimer>>

\* time passes while the page is watched
LiveElapse ==
  /\ ticks < MaxLiveTicks
  /\ ticks' = ticks + 1
  /\ now' = now + LiveTickMs

InitLive ==
  /\ liveScanEnabled = FALSE
  /\ observer = FALSE
  /\ observing = 0
  /\ pendingChanges = FALSE
  /\ debounceTimer = <<>>
  /\ timers = {}
  /\ publications = <<>>
  /\ burst = <<>>
  /\ liveEvent = [name |-> "load", pending |-> FALSE]

(***************************************************************************)
(* Content script: filename resolution on its own                         *)
(***************************************************************************)

\* a heading of 61 characters
LongHeading == <<"Q", "u", "a", "r", "t", "e", "r", "l", "y", " ", "a", "c", "c", "o", "u", "n", "t", "s", " ", "o", "f", " ", "t", "h", "e", " ">> \o Repeat("x", 35)

\* the anchors extractBestFilename is called with: title attribute, other
\* attributes, text, aria-label, URL and parent elements, each missing, present
\* but generic, or present with a name
NameAnchors ==
  { [Anchor(href, title, textContent) EXCEPT
       !.attributes = attributes, !.ariaLabel = ariaLabel, !.parents = parents] :
      href \in {"https://x/download/123", "https://x/", "https://x/get?file=my_font",
                "https://x/files/report:final"},
      title \in {Null, <<"1", "4", "4", " ", "K">>, <<"D", "o", "w", "n", "l", "o", "a", "d">>, <<"A", "n", "n", "u", "a", "l", " ", "R", "e", "p", "o", "r", "t">>, <<"a", ":", "b", "\n", " ", "c">>},
      textContent \in {<<"D", "o", "w", "n", "l", "o", "a", "d">>, <<" ", "R", "o", "b", "o", "t", "o", " ", " ", "B", "o", "l", "d", " ">>},
      attributes \in {<<>>,
                      <<[name |-> <<"d", "a", "t", "a", "-", "f", "i", "l", "e", "n", "a", "m", "e">>, value |-> <<"s", "p", "e", "c", ".", "p", "d", "f">>]>>,
                      <<[name |-> <<"d", "a", "t", "a", "-", "n", "a", "m", "e">>, value |-> <<"f", "i", "l", "e">>],
                        [name |-> <<"c", "l", "a", "s", "s">>, value |-> <<"b", "t", "n">>]>>},
      ariaLabel \in {Null, <<"P", "r", "i", "c", "e", " ", "l", "i", "s", "t">>},
      parents \in {<<>>, <<[heading |-> <<"F", "o", "n", "t", "s">>, titleEl |-> Null]>>} }

\* the first h1 and the title of the pages the anchors are on
NamePages ==
  { [h1 |-> Null, title |-> <<>>],
    [h1 |-> <<"C", "a", "t", "a", "l", "o", "g", "u", "e">>, title |-> <<"x">>],
    [h1 |-> LongHeading, title |-> <<"F", "o", "n", "t", "s", " ", "-", " ", "S", "i", "t", "e">>],
    [h1 |-> LongHeading, title |-> <<>>] }

\* extractBestFilename is called
BestFilenameCalled ==
  \E anchor \in NameAnchors, page \in NamePages :
    resolved = <<[anchor |-> anchor, page |-> page]>>

\* extractBestFilename returns
BestFilenameReturned ==
  /\ resolved # <<>>
  /\ ~HasKey(resolved[1], "filename")
  /\ resolved' =
       <<Spread(resolved[1],
                [filename |-> extractBestFilename(resolved[1].anchor,
                                                  resolved[1].anchor.url,
                                                  resolved[1].page)])>>

InitNames == resolved = <<>>

(***************************************************************************)
(* Specifications                                                         *)
(***************************************************************************)

\* one downloadFiles invocation, over the whole set of filenames
DLReceive ==
  /\ IsNextBatch(1)
  /\ \E files \in SeqsUpTo(DLFiles, MaxFiles) : OnDownloadFilesMessage(1, files)
  /\ UNCHANGED <<enVars, popVars, csVars, fetchVars>>
DLCallback == (\E ok \in BOOLEAN : DownloadCallback(1, ok)) /\ UNCHANGED <<enVars, popVars, csVars, fetchVars>>
DLSleep == SleepElapsed(1) /\ UNCHANGED <<enVars, popVars, csVars, fetchVars>>

Init ==
  /\ InitDownloads /\ InitEnrichment /\ InitPopup /\ InitScan /\ InitLive /\ InitFetch
  /\ InitNames

NextDL == DLReceive \/ DLCallback \/ DLSleep

SpecDL == Init /\ [][NextDL]_vars

\* overlapping downloadFiles invocations
SchedReceive ==
  /\ \E j \in BatchIds :
       /\ IsNextBatch(j)
       /\ \E files \in SeqsUpTo(SchedFiles, MaxSchedFiles) : OnDownloadFilesMessage(j, files)
  /\ UNCHANGED <<enVars, popVars, csVars, fetchVars>>
SchedCallback ==
  (\E j \in BatchIds, ok \in BOOLEAN : DownloadCallback(j, ok)) /\ UNCHANGED <<enVars, popVars, csVars, fetchVars>>
SchedSleep == (\E j \in BatchIds : SleepElapsed(j)) /\ UNCHANGED <<enVars, popVars, csVars, fetchVars>>

NextSched == SchedReceive \/ SchedCallback \/ SchedSleep

SpecSched == Init /\ [][NextSched]_vars

\* enrichFiles requests, each sent after the response to the one before, while
\* time passes
EnReceive ==
  /\ \E c \in CallIds :
       /\ calls[c].pc # "running"
       /\ \E files \in SeqsUpTo(EnrichFiles, MaxEnrichFiles) : OnEnrichFilesMessage(c, files)
  /\ UNCHANGED <<dlVars, popVars, csVars, fetchVars>>
EnProbeSucceeds == (\E p \in probes : ProbeSucceeds(p)) /\ UNCHANGED <<dlVars, popVars, csVars, fetchVars>>
EnProbeFails == (\E p \in probes : ProbeFails(p)) /\ UNCHANGED <<dlVars, popVars, csVars, fetchVars>>
EnProbeTimesOut == (\E p \in probes : ProbeTimesOut(p)) /\ UNCHANGED <<dlVars, popVars, csVars, fetchVars>>
EnTick == (\E d \in TickSteps : Tick(d)) /\ UNCHANGED <<dlVars, popVars, csVars, fetchVars>>

NextEnrich == EnReceive \/ EnProbeSucceeds \/ EnProbeFails \/ EnProbeTimesOut \/ EnTick

SpecEnrich == Init /\ [][NextEnrich]_vars

\* enrichFiles requests while time passes and timers that are due fire; a request
\* arrives while the clock can still advance
FairReceive == ticks < MaxTicks /\ EnReceive

NextEnrichFair ==
  FairReceive \/ EnProbeSucceeds \/ EnProbeFails \/ EnProbeTimesOut \/ EnTick

SpecEnrichFair ==
  Init /\ [][NextEnrichFair]_vars /\ WF_vars(EnProbeTimesOut) /\ WF_vars(EnTick)

\* enrichFiles messages of one candidate each, the second one arriving at any
\* time, while time passes
OvReceive ==
  /\ \E c \in OverlapCallIds :
       /\ calls[c].pc # "running"
       /\ \E file \in EnrichFiles : OnEnrichFilesMessage(c, <<file>>)
  /\ UNCHANGED <<dlVars, popVars, csVars, fetchVars>>

NextOverlap ==
  OvReceive \/ EnProbeSucceeds \/ EnProbeFails \/ EnProbeTimesOut \/ EnTick

SpecOverlap == Init /\ [][NextOverlap]_vars

\* the URLs of n candidates enriched some time ago
EarlierUrls(n) == {"earlier" \o ToString(i) : i \in 1..n}

\* the timestamps of the cache entries written before the first state: 'old' of
\* them more than the TTL ago, 'edge' of them exactly the TTL ago, the others
\* one second ago
EarlierCache(size, old, edge) ==
  [u \in EarlierUrls(size) |->
     [timestamp |-> IF u \in EarlierUrls(old) THEN -(HEAD_CACHE_TTL + 1)
                    ELSE IF u \in EarlierUrls(old + edge) THEN -HEAD_CACHE_TTL
                    ELSE -1000,
      data |-> [extension |-> Pdf]]]

\* the caches the service worker has after CacheSweepSize probes, or nearly as
\* many, succeeded
EarlierCaches ==
  { EarlierCache(size, fill[1], fill[2]) :
      size \in {CacheSweepSize - 1, CacheSweepSize},
      fill \in {<<0, 0>>, <<1, 1>>, <<200, 0>>, <<0, CacheSweepSize - 1>>} }

InitSweep ==
  /\ InitDownloads /\ InitPopup /\ InitScan /\ InitLive /\ InitFetch /\ InitNames
  /\ headCache \in EarlierCaches
  /\ now = 0
  /\ ticks = 0
  /\ calls = [c \in OverlapCallIds |-> IdleCall]
  /\ probes = {}

\* enrichFiles messages of one candidate each, each sent after the response to
\* the one before, to a service worker whose cache is nearly full
SweepReceive ==
  /\ \E c \in CallIds :
       /\ calls[c].pc # "running"
       /\ \E file \in EnrichFiles : OnEnrichFilesMessage(c, <<file>>)
  /\ UNCHANGED <<dlVars, popVars, csVars, fetchVars>>

NextSweep ==
  SweepReceive \/ EnProbeSucceeds \/ EnProbeFails \/ EnProbeTimesOut \/ EnTick

SpecSweep == InitSweep /\ [][NextSweep]_vars

\* the popup from its opening on, with the page changing, the user at the
\* controls and the service worker answering the enrichment request
PopTabQueried == TabQueried /\ UNCHANGED <<dlVars, enVars, csVars, fetchVars>>
PopScanResponse ==
  (\E results \in ScanLists : ScanResponse(results)) /\ UNCHANGED <<dlVars, csVars, fetchVars>>
PopScanFails == ScanFails /\ UNCHANGED <<dlVars, enVars, csVars, fetchVars>>
PopFilesChanged ==
  (\E newFiles \in ScanLists : OnFilesChanged(newFiles)) /\ UNCHANGED <<dlVars, enVars, csVars, fetchVars>>
PopCheckbox ==
  (\E index \in 1..rows, checked \in BOOLEAN : OnCheckboxChange(index, checked))
  /\ UNCHANGED <<dlVars, enVars, csVars, fetchVars>>
PopSelectAll ==
  (\E shouldSelect \in BOOLEAN : toggleSelectAll(shouldSelect))
  /\ UNCHANGED <<dlVars, enVars, csVars, fetchVars>>
PopFilter == (\E value \in FilterValues : OnFilterChange(value)) /\ UNCHANGED <<dlVars, enVars, csVars, fetchVars>>
PopEnrichResponse == EnrichResponse /\ UNCHANGED <<dlVars, enVars, csVars, fetchVars>>
PopEnrichRequestFails == EnrichRequestFails /\ UNCHANGED <<dlVars, enVars, csVars, fetchVars>>
PopProbeSucceeds == (\E p \in probes : ProbeSucceeds(p)) /\ UNCHANGED <<dlVars, popVars, csVars, fetchVars>>
PopProbeFails == (\E p \in probes : ProbeFails(p)) /\ UNCHANGED <<dlVars, popVars, csVars, fetchVars>>

NextPopup ==
  \/ PopTabQueried \/ PopScanResponse \/ PopScanFails \/ PopFilesChanged
  \/ PopCheckbox \/ PopSelectAll \/ PopFilter
  \/ PopEnrichResponse \/ PopEnrichRequestFails
  \/ PopProbeSucceeds \/ PopProbeFails

SpecPopup == Init /\ [][NextPopup]_vars

\* the content script answering scanFiles requests while the page changes
ScanAdd ==
  (\E place \in Places, el \in PageElements : AddElement(place, el))
  /\ UNCHANGED <<dlVars, enVars, popVars, liveVars, nameVars, fetchVars>>
ScanNavigate == FrameNavigates /\ UNCHANGED <<dlVars, enVars, popVars, liveVars, nameVars, fetchVars>>
ScanRequest == OnScanFiles /\ UNCHANGED <<dlVars, enVars, popVars, liveVars, nameVars, fetchVars>>

NextScan == ScanAdd \/ ScanNavigate \/ ScanRequest

SpecScan == Init /\ [][NextScan]_vars

\* the same, on a page with anchors that have no href, a javascript: href or a
\* bare fragment as href
AnchorsAdd ==
  (\E place \in Places, el \in AnchorElements : AddElement(place, el))
  /\ UNCHANGED <<dlVars, enVars, popVars, liveVars, nameVars, fetchVars>>

NextAnchors == AnchorsAdd \/ ScanNavigate \/ ScanRequest

SpecAnchors == Init /\ [][NextAnchors]_vars

\* the same, on a page that also has elements in iframes inside an iframe and
\* inside a shadow root
FramesAdd ==
  (\E place \in Places \cup DeepPlaces, el \in PageElements : AddElement(place, el))
  /\ UNCHANGED <<dlVars, enVars, popVars, liveVars, nameVars, fetchVars>>

NextFrames == FramesAdd \/ ScanNavigate \/ ScanRequest

SpecFrames == Init /\ [][NextFrames]_vars

\* the content script watching the page
LiveEnable ==
  OnEnableLiveScan /\ UNCHANGED <<dlVars, enVars, popVars, scanVars, nameVars, fetchVars>>
LiveDisable ==
  OnDisableLiveScan /\ UNCHANGED <<dlVars, enVars, popVars, scanVars, nameVars, fetchVars>>
LiveMutations ==
  (\E mutations \in MutationBatches : ObserverCallback(mutations))
  /\ UNCHANGED <<dlVars, enVars, popVars, scanVars, nameVars, fetchVars>>
LiveTimeout ==
  (\E timer \in timers : DebounceTimeout(timer))
  /\ UNCHANGED <<dlVars, enVars, popVars, scanVars, nameVars, fetchVars>>
LiveTick ==
  LiveElapse /\ UNCHANGED <<dlVars, popVars, csVars, headCache, calls, probes, fetchVars>>

NextLive == LiveEnable \/ LiveDisable \/ LiveMutations \/ LiveTimeout \/ LiveTick

SpecLive == Init /\ [][NextLive]_vars

\* the content script watching the page while time passes and the timer that
\* is due fires; the last relevant batch arrives while the clock can still
\* advance by the delay of the timer
FairMutations == ticks * LiveTickMs + DebounceMs <= MaxLiveTicks * LiveTickMs /\ LiveMutations

NextLiveFair == LiveEnable \/ LiveDisable \/ FairMutations \/ LiveTimeout \/ LiveTick

SpecLiveFair ==
  Init /\ [][NextLiveFair]_vars /\ WF_vars(LiveTimeout) /\ WF_vars(LiveTick)

\* the content script resolving the filename of one anchor
NamesReturned ==
  BestFilenameReturned /\ UNCHANGED <<dlVars, enVars, popVars, scanVars, liveVars, fetchVars>>

NextNames == NamesReturned

InitResolve ==
  /\ InitDownloads /\ InitEnrichment /\ InitPopup /\ InitScan /\ InitLive /\ InitFetch
  /\ BestFilenameCalled

SpecNames == InitResolve /\ [][NextNames]_vars

\* the service worker enriching one candidate, whatever the server answers
FetchSent ==
  (\E file \in ProbeFiles : ProbeSent(file))
  /\ UNCHANGED <<dlVars, enVars, popVars, csVars>>
FetchAnswered ==
  (\E response \in UNION {Responses(file.url) : file \in ProbeFiles} :
     ProbeAnswered(response))
  /\ UNCHANGED <<dlVars, enVars, popVars, csVars>>

NextFetch == FetchSent \/ FetchAnswered

SpecFetch == Init /\ [][NextFetch]_vars

\* the candidates at one URL that enrichFileMetadata is called with in turn
MergeFiles == {CandA, CandR, CandG}

\* enrichFileMetadata(file) up to its first await: it returns the candidate or
\* the candidate merged with the cached metadata, or sends the probe
MergeRequested(file) ==
  /\ \A fetch \in Range(lastFetch) : HasKey(fetch, "result")
  /\ LET Started(promise) ==
           IF promise.status = "fulfilled"
           THEN <<[file |-> file, result |-> promise.value]>>
           ELSE <<[file |-> file]>>
     IN  lastFetch' = Started(enrichFileMetadata(file))
  /\ UNCHANGED enVars

\* the probe is answered: enrichFileMetadata caches the metadata and returns
\* the merged candidate, or returns the candidate when fetchFileMetadata threw
MergeAnswered(response) ==
  /\ lastFetch # <<>>
  /\ ~HasKey(lastFetch[1], "result")
  /\ LET file == lastFetch[1].file
         Resumed(metadata) ==
           /\ lastFetch' =
                <<[file |-> file, response |-> response,
                   result |-> IF metadata.threw THEN FailedResult(file).value
                              ELSE SucceededResult(file, metadata.value).value]>>
           /\ headCache' = IF metadata.threw THEN headCache
                           ELSE CacheAfterSet(file.url, metadata.value)
     IN  Resumed(fetchFileMetadata(file.url, response))
  /\ UNCHANGED <<now, ticks, calls, probes>>

\* the service worker enriching candidates at one URL one after the other,
\* whatever the server answers
MergeSent ==
  (\E file \in MergeFiles : MergeRequested(file))
  /\ UNCHANGED <<dlVars, popVars, csVars>>
MergeReturned ==
  (\E response \in Responses("u1") : MergeAnswered(response))
  /\ UNCHANGED <<dlVars, popVars, csVars>>

NextMerge == MergeSent \/ MergeReturned

SpecMerge == Init /\ [][NextMerge]_vars

(***************************************************************************)
(* Download scheduling: properties                                        *)
(***************************************************************************)

OutstandingOf(j) == {o \in outstanding : o[1] = j}

\* the URL a candidate is to be retrieved from
RetrievalUrl(file) ==
  IF "finalUrl" \in DOMAIN file /\ file.finalUrl # "" THEN file.finalUrl ELSE file.url

\* C1: within one downloadFiles invocation the save-to-disk requests are
\* issued in the input order of the candidates, and at most one is outstanding:
\* when item i+1 has been issued, the callbacks of items 1..i have all fired.
C1_SequentialInOrder ==
  \A j \in BatchIds :
    /\ Len(issued[j]) <= Len(batches[j].files)
    /\ \A k \in 1..Len(issued[j]) :
         /\ issued[j][k].item = k
         /\ issued[j][k].url = RetrievalUrl(batches[j].files[k])
    /\ Cardinality(OutstandingOf(j)) <= 1
    /\ \A o \in OutstandingOf(j) : o[2] = Len(issued[j])

\* item 2 of an invocation is outstanding after item 1 completed, while another
\* invocation has a request outstanding too
C1_Witness ==
  \E j \in BatchIds, h \in BatchIds :
    /\ j # h
    /\ Len(issued[j]) = 2
    /\ OutstandingOf(j) = {<<j, 2>>}
    /\ OutstandingOf(h) # {}

\* C2: a rejected item does not halt the queue: the invocation never fails and,
\* when it has finished, every input candidate has been issued exactly once,
\* whatever subset of the requests failed.
C2_FailureDoesNotHalt ==
  \A j \in BatchIds :
    /\ batches[j].pc # "rejected"
    /\ batches[j].pc = "done" =>
         /\ Len(issued[j]) = Len(batches[j].files)
         /\ \A k \in 1..Len(issued[j]) : issued[j][k].item = k

\* the first request of an invocation was rejected and its second request has
\* been issued all the same
C2_Witness ==
  \E j \in BatchIds :
    /\ batches[j].pc = "awaitDownload"
    /\ batches[j].idx = 2
    /\ lastOutcome[j] = "error"
    /\ Len(issued[j]) = 2

\* the sanitized names of the items of a batch
BaseNames(files) == [i \in 1..Len(files) |-> sanitizeFilename(Get(files[i], "filename"))]

\* how many of the first i names are the i-th name
Occurrence(names, i) == Cardinality({m \in 1..i : names[m] = names[i]})

\* result is name with ' (n)' inserted before its last dot, or appended when
\* name has no dot
IsCounterInserted(name, n, result) ==
  LET counter == <<" ", "(">> \o ToDigits(n) \o <<")">>
  IN  IF "." \notin Range(name)
      THEN result = name \o counter
      ELSE \E p \in 1..Len(name) :
             /\ name[p] = "."
             /\ \A q \in (p + 1)..Len(name) : name[q] # "."
             /\ result = SubSeq(name, 1, p - 1) \o counter \o SubSeq(name, p, Len(name))

\* C3: the k-th candidate of a batch whose sanitized filename is a given name is
\* issued under that name when k = 1 and under the name with ' (k-1)' inserted
\* before the last dot (appended when there is no dot) when k > 1; three
\* candidates sanitizing to report.pdf are issued as report.pdf, report (1).pdf,
\* report (2).pdf.
C3_CollisionCounter ==
  LET names == BaseNames(batches[1].files)
  IN  /\ \A i \in 1..Len(issued[1]) :
           LET k == Occurrence(names, i)
           IN  IF k = 1
               THEN issued[1][i].filename = names[i]
               ELSE IsCounterInserted(names[i], k - 1, issued[1][i].filename)
      /\ ( /\ Len(issued[1]) = 3
           /\ names = <<ReportPdf, ReportPdf, ReportPdf>> )
         => [i \in 1..3 |-> issued[1][i].filename] = <<ReportPdf, Report1Pdf, Report2Pdf>>

\* three candidates with different raw names that all sanitize to report.pdf
\* have been issued as report.pdf, report (1).pdf, report (2).pdf
C3_Witness ==
  /\ batches[1].pc = "done"
  /\ Len(issued[1]) = 3
  /\ BaseNames(batches[1].files) = <<ReportPdf, ReportPdf, ReportPdf>>
  /\ batches[1].files[2].filename # ReportPdf
  /\ [i \in 1..3 |-> issued[1][i].filename] = <<ReportPdf, Report1Pdf, Report2Pdf>>

\* C4: within one downloadFiles invocation no two candidates are issued with
\* the same target filename, whatever the input filenames.
C4_DistinctTargets ==
  \A j \in BatchIds :
    \A a \in 1..Len(issued[j]), b \in 1..Len(issued[j]) :
      a # b => issued[j][a].filename # issued[j][b].filename

Min(a, b) == IF a < b THEN a ELSE b

\* C5 as stated: the handler replies only after a save-to-disk request has been
\* issued for every candidate of the batch.
C5_ReplyAfterAllIssued ==
  \A j \in BatchIds : replied[j] => Len(issued[j]) = Len(batches[j].files)

\* C5 as amended: the handler replies in the turn that started downloadFiles:
\* at the reply the request of the first candidate (if there is one) has been
\* issued and no request of a later candidate has.
C5_ReplyAfterFirstIssued ==
  [][\A j \in BatchIds :
       (~replied[j] /\ replied'[j]) =>
          Len(issued'[j]) = Min(1, Len(batches'[j].files))]_vars

\* a reply has been sent for a batch of two while only its first request is issued
C5_Witness ==
  \E j \in BatchIds :
    /\ replied[j]
    /\ Len(batches[j].files) = 2
    /\ Len(issued[j]) = 1
    /\ batches[j].pc = "awaitDownload"

\* C19: every target filename downloadFiles hands to chrome.downloads.download
\* is non-empty and has no path separator, no other character that is invalid
\* in a filename and no control character, whatever the input filename, an empty
\* or missing one included.
C19_TargetNamesAreValid ==
  \A j \in BatchIds : \A k \in 1..Len(issued[j]) :
    LET target == issued[j][k].filename
    IN  /\ Len(target) > 0
        /\ \A n \in 1..Len(target) :
             target[n] \notin {"/", "\\", "<", ">", ":", "\"", "|", "?", "*",
                               "\t", "\n", "\r"}

\* requests have been issued for a candidate whose filename has separators and
\* a control character, for one with an empty filename, for one without a
\* filename and for one whose filename is dots only
C19_Witness ==
  /\ batches[1].pc = "done"
  /\ \E k \in 1..Len(issued[1]) :
       LET raw == Get(batches[1].files[k], "filename")
       IN  \E n \in 1..Len(raw) : raw[n] \in {"/", "\t"}
  /\ \E k \in 1..Len(issued[1]) : Get(batches[1].files[k], "filename") = <<>>
  /\ \E k \in 1..Len(issued[1]) : ~HasKey(batches[1].files[k], "filename")

\* a candidate without its finalUrl
WithoutFinalUrl(file) == [key \in DOMAIN file \ {"finalUrl"} |-> file[key]]

\* C21: the save-to-disk request of a candidate names its finalUrl when the
\* candidate has a non-empty one and its url otherwise, and its target filename
\* is the one the batch would get if no candidate had a finalUrl.
C21_FinalUrlPreferred ==
  LET files == batches[1].files
      plain == ProcessFiles([i \in 1..Len(files) |-> WithoutFinalUrl(files[i])])
  IN  \A k \in 1..Len(issued[1]) :
        /\ issued[1][k].url =
             IF HasKey(files[k], "finalUrl") /\ files[k].finalUrl # ""
             THEN files[k].finalUrl ELSE files[k].url
        /\ issued[1][k].filename = plain[k].finalFilename

\* requests have been issued for a candidate with a finalUrl, at that URL, for
\* one with an empty finalUrl and for one without, each at its url
C21_Witness ==
  /\ \E k \in 1..Len(issued[1]) :
       /\ HasKey(batches[1].files[k], "finalUrl")
       /\ batches[1].files[k].finalUrl = "u9final"
       /\ issued[1][k].url = "u9final"
  /\ \E k \in 1..Len(issued[1]) :
       /\ HasKey(batches[1].files[k], "finalUrl")
       /\ batches[1].files[k].finalUrl = ""
       /\ issued[1][k].url = batches[1].files[k].url
  /\ \E k \in 1..Len(issued[1]) :
       /\ ~HasKey(batches[1].files[k], "finalUrl")
       /\ issued[1][k].url = batches[1].files[k].url

\* C24: within one downloadFiles invocation every save-to-disk request after the
\* first is issued when the timer of sleep(200) fires, a timer that is set when
\* the request before has completed, whether that request succeeded or failed.
C24_PauseBetweenRequests ==
  [][\A j \in BatchIds :
       (Len(issued[j]) > 0 /\ Len(issued'[j]) > Len(issued[j]))
         => batches[j].pc = "sleep"]_vars

\* C25: at most one save-to-disk request is outstanding in the service worker at
\* any time, also when a downloadFiles message arrives while the batch of an
\* earlier message is still being processed.
C25_OneOutstandingRequest == Cardinality(outstanding) <= 1

(***************************************************************************)
(* Metadata enrichment: properties                                        *)
(***************************************************************************)

\* the probes call c made
ProbesOf(c) == {p \in probes : p.call = c}

\* C6: enrichFilesWithMetadata returns a list as long as its input whose i-th
\* element has the URL of the i-th input candidate, whichever probes succeed,
\* fail or time out and in whatever order they complete.
C6_SameLengthSameUrls ==
  \A c \in CallIds :
    calls[c].pc = "returned" =>
      /\ Len(calls[c].response) = Len(calls[c].files)
      /\ \A i \in 1..Len(calls[c].files) :
           calls[c].response[i].url = calls[c].files[i].url

\* a call with two candidates at different URLs has returned; the probe of the
\* second succeeded before the probe of the first timed out
C6_Witness ==
  \E c \in CallIds :
    /\ calls[c].pc = "returned"
    /\ Len(calls[c].files) = 2
    /\ calls[c].files[1].url # calls[c].files[2].url
    /\ \E a \in ProbesOf(c), b \in ProbesOf(c) :
         /\ a.index = 1 /\ a.state = "aborted"
         /\ b.index = 2 /\ b.state = "ok"
         /\ b.url \in DOMAIN headCache
         /\ headCache[b.url].timestamp < a.started + FetchTimeoutMs

\* C7: when in one call the probe of candidate A fails or times out and the
\* probe of candidate B succeeds, B is returned with enriched = true and the
\* metadata of its probe, and A is returned equal to its input in every field.
C7_FailedUnchangedSucceededEnriched ==
  \A c \in CallIds :
    calls[c].pc = "returned" =>
      \A a \in ProbesOf(c), b \in ProbesOf(c) :
        (a.state \in {"failed", "aborted"} /\ b.state = "ok") =>
          LET A == calls[c].response[a.index]
              B == calls[c].response[b.index]
              metadata == ServerMetadata(b.url)
          IN  /\ A = calls[c].files[a.index]
              /\ ~HasKey(A, "enriched")
              /\ HasKey(B, "enriched") /\ B.enriched = TRUE
              /\ \A k \in DOMAIN metadata : HasKey(B, k) /\ B[k] = metadata[k]

\* a call has returned in which one probe failed and another succeeded
C7_Witness ==
  \E c \in CallIds :
    /\ calls[c].pc = "returned"
    /\ \E a \in ProbesOf(c), b \in ProbesOf(c) :
         /\ a.state = "failed"
         /\ b.state = "ok"
         /\ calls[c].response[b.index].enriched
         /\ calls[c].response[a.index] = calls[c].files[a.index]

\* the candidates C8 is about
IsPassThrough(file) ==
  /\ Len(file.filename) > 0
  /\ Len(file.extension) > 0
  /\ file.extension # <<"d", "o", "w", "n", "l", "o", "a", "d">>
  /\ file.isInferredDownload = FALSE
  /\ file.filename # <<"f", "i", "l", "e">>
  /\ ~(Len(file.filename) >= 32 /\ Range(file.filename) \subseteq HexChars)

\* C8: a candidate with a good filename is never probed, causes no cache read or
\* write, and is returned unchanged: no probe is made for it, the promise of its
\* enrichment is fulfilled with the candidate itself whatever the cache holds for
\* its URL, and every step that changes the cache entry of a URL completes a
\* successful probe of a candidate at that URL that has no good filename.
C8_GoodFilenameUntouched ==
  [][ /\ \A c \in CallIds : \A i \in 1..Len(calls'[c].files) :
           IsPassThrough(calls'[c].files[i]) =>
             /\ \A p \in probes' : ~(p.call = c /\ p.index = i)
             /\ calls'[c].results[i] = Fulfilled(calls'[c].files[i])
             /\ calls'[c].pc = "returned" =>
                  calls'[c].response[i] = calls'[c].files[i]
      /\ \A u \in DOMAIN headCache' :
           (u \notin DOMAIN headCache \/ headCache'[u] # headCache[u]) =>
             \E p \in probes :
               /\ p.state = "inflight"
               /\ p.url = u
               /\ [p EXCEPT !.state = "ok"] \in probes'
               /\ ~IsPassThrough(calls[p.call].files[p.index])
    ]_vars

\* a candidate with a good filename has been returned unchanged by a call made
\* while the cache held a fresh entry for its URL, next to a candidate that was
\* answered from the cache
C8_Witness ==
  \E c \in CallIds :
    /\ calls[c].pc = "returned"
    /\ \E i \in 1..Len(calls[c].files), k \in 1..Len(calls[c].files) :
         /\ IsPassThrough(calls[c].files[i])
         /\ CacheHit(calls[c].files[i].url)
         /\ calls[c].response[i] = calls[c].files[i]
         /\ ~IsPassThrough(calls[c].files[k])
         /\ calls[c].files[k].url = calls[c].files[i].url
         /\ calls[c].response[k] # calls[c].files[k]
         /\ ProbesOf(c) = {}

\* C18: when the cache holds, for URL U, the metadata of a successful probe
\* written less than 60 s ago, enriching a candidate at U that has no good
\* filename issues no probe and returns the candidate merged with that metadata.
C18_FreshCacheServesWithoutProbe ==
  [][\A c \in CallIds :
       (calls[c].pc # "running" /\ now' = now) =>
         \A i \in 1..Len(calls'[c].files) :
           LET file == calls'[c].files[i]
           IN  ( /\ ~IsPassThrough(file)
                 /\ file.url \in DOMAIN headCache
                 /\ now - headCache[file.url].timestamp < 60000 )
               => /\ \A p \in probes' : ~(p.call = c /\ p.index = i)
                  /\ calls'[c].results[i] =
                       Fulfilled(Spread(file, headCache[file.url].data))
                  /\ calls'[c].pc = "returned" =>
                       calls'[c].response[i] = Spread(file, headCache[file.url].data)
    ]_vars

\* a call has returned, without any probe, a candidate merged with metadata that
\* was cached some time before the call
C18_Witness ==
  \E c \in CallIds :
    /\ calls[c].pc = "returned"
    /\ ProbesOf(c) = {}
    /\ \E i \in 1..Len(calls[c].files) :
         LET file == calls[c].files[i]
         IN  /\ ~IsPassThrough(file)
             /\ file.url \in DOMAIN headCache
             /\ headCache[file.url].timestamp < now
             /\ now - headCache[file.url].timestamp < 60000
             /\ calls[c].response[i] = Spread(file, headCache[file.url].data)
             /\ calls[c].response[i].filename # file.filename

\* C26: a candidate without a good filename that is enriched from a fresh cache
\* entry is returned with enriched = true, as a candidate is whose probe
\* succeeded.
C26_CacheHitIsMarkedEnriched ==
  [][\A c \in CallIds :
       (calls[c].pc # "running" /\ now' = now) =>
         \A i \in 1..Len(calls'[c].files) :
           LET file == calls'[c].files[i]
           IN  ( /\ ~IsPassThrough(file)
                 /\ file.url \in DOMAIN headCache
                 /\ now - headCache[file.url].timestamp < 60000 )
               => /\ calls'[c].results[i].status = "fulfilled"
                  /\ HasKey(calls'[c].results[i].value, "enriched")
                  /\ calls'[c].results[i].value.enriched = TRUE
    ]_vars

\* C27: at most one probe of a URL is in flight at any time: an enrichment
\* request for a URL that arrives while an earlier probe of that URL is
\* unanswered issues no second probe.
C27_OneProbePerUrlInFlight ==
  \A p \in InFlight, q \in InFlight : p.url = q.url => p = q

\* the probes that were aborted by their timer
Aborted == {p \in probes : p.state = "aborted"}

\* C22: every enrichFilesWithMetadata call returns: a probe in flight is
\* answered or, FetchTimeoutMs after it was sent at the earliest, aborted by its
\* own timer; the abort settles the promise of that one candidate with the
\* candidate as it was passed in and leaves the other promises and the cache as
\* they are.
C22_EveryCallReturns ==
  /\ \A c \in CallIds : (calls[c].pc = "running") ~> (calls[c].pc = "returned")
  /\ [](\A p \in Aborted :
          /\ now >= p.started + FetchTimeoutMs
          /\ calls[p.call].results[p.index] = Fulfilled(calls[p.call].files[p.index]))
  /\ [][\A p \in Aborted' \ Aborted :
           /\ headCache' = headCache
           /\ \A i \in 1..Len(calls[p.call].results) :
                i # p.index => calls'[p.call].results[i] = calls[p.call].results[i]]_vars

\* a call has returned after the probe of its first candidate was aborted and
\* the probe of its second candidate was answered: the first candidate is in the
\* response as it was passed in, the second one enriched
C22_Witness ==
  \E c \in CallIds :
    /\ calls[c].pc = "returned"
    /\ \E p \in Aborted : p.call = c /\ p.index = 1
    /\ \E p \in probes : p.call = c /\ p.index = 2 /\ p.state = "ok"
    /\ calls[c].response[1] = calls[c].files[1]
    /\ HasKey(calls[c].response[2], "enriched")

\* C31: a cache entry whose age has reached the TTL (60 s) is never merged into
\* a candidate: the lookup treats it as a miss and issues a fresh probe, and the
\* candidate is returned with what that probe brings or, when it fails, as it
\* was passed in.
C31_ExpiredEntryIsMiss ==
  [][\A c \in CallIds :
       (calls[c].pc # "running" /\ now' = now) =>
         \A i \in 1..Len(calls'[c].files) :
           LET file == calls'[c].files[i]
           IN  ( /\ ~IsPassThrough(file)
                 /\ file.url \in DOMAIN headCache
                 /\ now - headCache[file.url].timestamp >= 60000 )
               => /\ calls'[c].pc = "running"
                  /\ calls'[c].results[i] = Pending
                  /\ \E p \in probes' :
                       /\ p.call = c /\ p.index = i /\ p.url = file.url
                       /\ p.state = "inflight" /\ p.started = now
    ]_vars

\* a call is waiting for the probe of a candidate whose URL has a cache entry
\* written exactly 60 s before the call
C31_Witness ==
  \E c \in CallIds :
    /\ calls[c].pc = "running"
    /\ \E p \in InFlight :
         /\ p.call = c
         /\ p.url \in DOMAIN headCache
         /\ p.started - headCache[p.url].timestamp = 60000
         /\ ~IsPassThrough(calls[c].files[p.index])
         /\ calls[c].results[p.index] = Pending

\* the probes that ended without a success status: network error, status that
\* is not ok, or abort by the timer
Unsuccessful == {p \in probes : p.state \in {"failed", "aborted"}}

\* C32: a failed probe (non-success status, network error or timeout) creates
\* and updates no cache entry, so the next enrichment of that URL issues a new
\* probe instead of replaying the failure: the step that ends a probe without
\* success leaves the cache as it is, and a call for a candidate without a good
\* filename at a URL whose probes in the call before all ended without success
\* sends a probe for it.
C32_FailedProbeNotCached ==
  [][ /\ \A p \in Unsuccessful' \ Unsuccessful : headCache' = headCache
      /\ \A c \in CallIds :
           (calls[c].pc # "running" /\ now' = now) =>
             \A i \in 1..Len(calls'[c].files) :
               LET file == calls'[c].files[i]
               IN  ( /\ ~IsPassThrough(file)
                     /\ \E p \in Unsuccessful : p.url = file.url
                     /\ \A p \in probes : p.url = file.url => p \in Unsuccessful )
                   => /\ calls'[c].results[i] = Pending
                      /\ \E p \in probes' :
                           /\ p.call = c /\ p.index = i /\ p.url = file.url
                           /\ p.state = "inflight" /\ p.started = now
    ]_vars

\* a call has returned after the probe of one candidate failed and the probe of
\* another one succeeded: the cache has an entry for the URL of the second and
\* none for the URL of the first
C32_Witness ==
  \E c \in CallIds :
    /\ calls[c].pc = "returned"
    /\ \E a \in Unsuccessful, b \in probes :
         /\ a.call = c /\ b.call = c /\ b.state = "ok"
         /\ a.url \notin DOMAIN headCache
         /\ b.url \in DOMAIN headCache
         /\ calls[c].response[a.index] = calls[c].files[a.index]

\* the age at time t of the entry of URL u in the cache
AgeIn(cache, u, t) == t - cache[u].timestamp

\* C33: whenever a successful probe leaves the cache with more than 500
\* entries, the sweep runs and afterwards the cache holds no entry older than
\* 60 s, while every entry younger than 60 s, the one just written included, is
\* still present.
C33_SweepKeepsFreshDropsOld ==
  [][\A p \in InFlight :
       ( /\ [p EXCEPT !.state = "ok"] \in probes'
         /\ Cardinality(DOMAIN headCache \cup {p.url}) > 500 )
       => /\ \A u \in DOMAIN headCache' : ~(AgeIn(headCache', u, now) > 60000)
          /\ p.url \in DOMAIN headCache'
          /\ headCache'[p.url].timestamp = now
          /\ \A u \in DOMAIN headCache \ {p.url} :
               AgeIn(headCache, u, now) < 60000 =>
                 u \in DOMAIN headCache' /\ headCache'[u] = headCache[u]
    ]_vars

\* a probe has just succeeded and its entry is in the cache; of the entries
\* written earlier, one is gone and another one is still there
C33_Witness ==
  \E p \in probes :
    /\ p.state = "ok"
    /\ p.url \in DOMAIN headCache
    /\ headCache[p.url].timestamp = now
    /\ \E u \in EarlierUrls(CacheSweepSize - 1) : u \notin DOMAIN headCache
    /\ \E u \in EarlierUrls(CacheSweepSize) :
         u \in DOMAIN headCache /\ AgeIn(headCache, u, now) < 60000

\* the fields of a candidate that enrichment may set
EnrichedFields == {"filename", "extension", "size", "finalUrl", "enriched"}

\* C34: enrichFileMetadata never changes a candidate's url, selected or
\* isInferredDownload: on a successful probe or cache hit only filename,
\* extension, size, finalUrl and enriched can differ from the input, and on a
\* failure nothing differs.
C34_EnrichmentTouchesOnlyItsFields ==
  \A fetch \in Range(lastFetch) :
    HasKey(fetch, "result") =>
      /\ fetch.result.url = fetch.file.url
      /\ fetch.result.selected = fetch.file.selected
      /\ fetch.result.isInferredDownload = fetch.file.isInferredDownload
      /\ DOMAIN fetch.file \subseteq DOMAIN fetch.result
      /\ \A k \in DOMAIN fetch.result \ EnrichedFields :
           k \in DOMAIN fetch.file /\ fetch.result[k] = fetch.file[k]
      /\ (HasKey(fetch, "response") /\ ~fetch.response.ok) =>
           fetch.result = fetch.file

\* a selected candidate has been returned from the cache, without a probe, with
\* another filename, a size and a final URL, still selected
C34_Witness ==
  \E fetch \in Range(lastFetch) :
    /\ HasKey(fetch, "result")
    /\ ~HasKey(fetch, "response")
    /\ fetch.file.selected
    /\ fetch.result.selected
    /\ fetch.result.filename # fetch.file.filename
    /\ HasKey(fetch.result, "size")
    /\ HasKey(fetch.result, "finalUrl")

(***************************************************************************)
(* Popup: properties                                                      *)
(***************************************************************************)

\* the selected flag of the candidate at a URL in a list, FALSE when there is none
SelectedAt(fs, url) == \E i \in 1..Len(fs) : fs[i].url = url /\ fs[i].selected

\* candidate a is candidate b up to the selected flag
SameButSelected(a, b) ==
  /\ DOMAIN a = DOMAIN b
  /\ \A k \in DOMAIN a \ {"selected"} : a[k] = b[k]

\* C9: when handleFilesChanged applies a re-scan, the list becomes exactly the
\* candidates of the re-scan, each with the selected flag its URL had in the list
\* just before, FALSE for a URL that was not in the list; a URL that was selected
\* and is still present stays selected.
C9_RescanCarriesSelection ==
  [][lastEvent'.name = "filesChanged" =>
       LET newFiles == lastEvent'.files
       IN  /\ Len(popupFiles') = Len(newFiles)
           /\ \A i \in 1..Len(newFiles) :
                /\ SameButSelected(popupFiles'[i], newFiles[i])
                /\ popupFiles'[i].selected = SelectedAt(popupFiles, newFiles[i].url)
           /\ \A k \in 1..Len(popupFiles) :
                (popupFiles[k].selected /\ MapHas(newFiles, popupFiles[k].url)) =>
                   SelectedAt(popupFiles', popupFiles[k].url)
    ]_vars

\* a re-scan has just been applied to a list of two: it kept the URL that was
\* selected, selected, and brought a new URL, not selected
C9_Witness ==
  /\ lastEvent.name = "filesChanged"
  /\ Len(popupFiles) = 2
  /\ \E i \in 1..2, k \in 1..2 :
       /\ popupFiles[i].selected
       /\ ~popupFiles[k].selected
       /\ popupFiles[k].url = "u3"
       /\ popupFiles[i].url = "u1"
  /\ enrichPc = "awaiting"
  /\ calls[1].pc = "running"
  /\ Len(calls[1].files) = 2

\* C10: the merge of an enrichment response leaves every candidate the selected
\* value it has in the popup at that moment, and neither adds nor removes
\* candidates, whatever toggles and re-scans happened since the request was sent.
C10_MergeKeepsSelection ==
  [][(enrichPc = "awaiting" /\ enrichPc' = "done" /\ lastEvent'.name = "merge") =>
       /\ Len(popupFiles') = Len(popupFiles)
       /\ \A i \in 1..Len(popupFiles) :
            /\ popupFiles'[i].url = popupFiles[i].url
            /\ popupFiles'[i].selected = popupFiles[i].selected
    ]_vars

\* a response has just been merged into a list that a re-scan replaced after the
\* request was sent: one candidate was enriched and is selected, as the user
\* left it while the request was in flight; another, new on the page, is not in
\* the response although it has no good filename
C10_Witness ==
  /\ lastEvent.name = "merge"
  /\ \E i \in 1..Len(popupFiles), k \in 1..Len(popupFiles) :
       /\ HasKey(popupFiles[i], "enriched")
       /\ popupFiles[i].selected
       /\ needsEnrichment(popupFiles[k])
       /\ ~MapHas(calls[1].files, popupFiles[k].url)
       /\ ~HasKey(popupFiles[k], "enriched")

\* the URLs an element refers to: its href, src or data, and its srcset
UrlsOf(el) ==
  {el.url} \cup (IF HasKey(el, "srcset") THEN Range(el.srcset) ELSE {})

\* whether an element refers to a URL in a way that makes it a candidate: the
\* URL ends in a supported extension, or the element is an anchor with a
\* download cue
IsQualifying(el, url, page) ==
  \/ \E info \in Range(extractFileInfo(url)) : isSupported(info.extension)
  \/ el.tag = "a" /\ detectDownloadLink(el, url, page) # <<>>

\* the elements of a document the scanner can read: those of the main document
\* and its shadow roots and those of the iframes of the same origin
ReadableElements(doc) ==
  Range(ElementsBelow(doc.root))
    \cup UNION {Range(ElementsBelow(doc.iframes[k].root)) :
                  k \in {n \in 1..Len(doc.iframes) : ~doc.iframes[n].crossOrigin}}

\* the URLs with at least one qualifying reference among some elements
QualifyingUrls(elements, page) ==
  UNION {{url \in UrlsOf(el) : IsQualifying(el, url, page)} : el \in elements}

\* the URLs of the candidates of a list
UrlsIn(files) == {files[i].url : i \in 1..Len(files)}

\* C11: the array scanForFiles returns holds exactly one candidate for every URL
\* with at least one qualifying reference in the main document, its shadow roots
\* and the same-origin iframes, however many elements refer to the URL.
C11_OneCandidatePerUrl ==
  \A response \in Range(scanResponse) :
    ~response.threw =>
      /\ \A i, k \in 1..Len(response.value) :
           response.value[i].url = response.value[k].url => i = k
      /\ UrlsIn(response.value) = QualifyingUrls(ReadableElements(document), document.page)

\* a scan has answered for a page on which an anchor in a shadow root and an
\* embed in an iframe refer to the same URL: the answer holds one candidate
C11_Witness ==
  /\ scanResponse # <<>>
  /\ ~scanResponse[1].threw
  /\ Len(scanResponse[1].value) = 1
  /\ \E a \in Range(document.root.hosts[1].elements),
        e \in Range(document.iframes[2].root.elements) :
       a.tag = "a" /\ e.tag = "embed" /\ a.url = e.url

\* filename, extension and isInferredDownload of a candidate, the last one
\* undefined when the candidate has none
Described(file) ==
  [url |-> file.url, filename |-> file.filename, extension |-> file.extension,
   isInferredDownload |-> Get(file, "isInferredDownload")]

C13_InferredFilenameNonEmpty ==
  /\ \A el \in ReadableElements(document) :
       el.tag = "a" => extractBestFilename(el, el.url, document.page) # <<>>
  /\ \A response \in Range(scanResponse) :
       ~response.threw =>
         \A f \in Range(response.value) :
           HasKey(f, "isInferredDownload") => f.filename # <<>>

\* C14: when reading the document of an iframe throws, scanForFiles does not
\* throw, no candidate comes from that iframe, and the candidates of the main
\* document and of every other iframe are returned.
C14_CrossOriginIframeIsSkipped ==
  \A response \in Range(scanResponse) :
    document.iframes[1].crossOrigin =>
      /\ ~response.threw
      /\ \A url \in QualifyingUrls(Range(ElementsBelow(document.iframes[1].root)),
                                   document.page) :
           url \in UrlsIn(response.value) =>
             url \in QualifyingUrls(ReadableElements(document), document.page)
      /\ QualifyingUrls(Range(ElementsBelow(document.root)), document.page)
           \subseteq UrlsIn(response.value)
      /\ QualifyingUrls(Range(ElementsBelow(document.iframes[2].root)), document.page)
           \subseteq UrlsIn(response.value)

\* a scan has answered for a page whose first iframe is of another origin and
\* holds a reference to a file, while the second iframe holds a reference to
\* another file: the answer is the candidate of the second iframe alone
C14_Witness ==
  /\ scanResponse # <<>>
  /\ document.iframes[1].crossOrigin
  /\ \E hidden \in Range(document.iframes[1].root.elements),
        shown \in Range(document.iframes[2].root.elements) :
       /\ IsQualifying(hidden, hidden.url, document.page)
       /\ IsQualifying(shown, shown.url, document.page)
       /\ ~scanResponse[1].threw
       /\ UrlsIn(scanResponse[1].value) = {shown.url}
       /\ hidden.url # shown.url

\* C28: the candidates of a same-origin iframe whose document is itself inside a
\* same-origin iframe, and those of a same-origin iframe that is inside a shadow
\* root, are in the array scanForFiles returns.
C28_NestedAndShadowHostedFramesScanned ==
  \A response \in Range(scanResponse) :
    ~response.threw =>
      /\ ~document.iframes[2].crossOrigin =>
           QualifyingUrls(Range(ElementsBelow(document.iframes[2].iframes[1].root)),
                          document.page) \subseteq UrlsIn(response.value)
      /\ QualifyingUrls(Range(ElementsBelow(document.root.hosts[1].iframes[1].root)),
                        document.page) \subseteq UrlsIn(response.value)

\* an anchor whose href attribute is missing, has the javascript: scheme or is a
\* bare fragment
IsSkippedAnchor(el) ==
  /\ el.tag = "a"
  /\ \/ el.hrefAttribute = <<>>
     \/ startsWith(el.hrefAttribute[1], "javascript:")
     \/ startsWith(el.hrefAttribute[1], "#")

\* C29: an anchor whose href is missing, uses the javascript: scheme or is a
\* bare fragment produces no candidate, whatever download cues its text, class
\* and data-* attributes hold: no candidate of a scan has the href of such an
\* anchor as its url.
C29_SkippedAnchorsGiveNoCandidate ==
  \A response \in Range(scanResponse) :
    ~response.threw =>
      \A el \in ReadableElements(document) :
        IsSkippedAnchor(el) => el.url \notin UrlsIn(response.value)

\* the candidates of a list that download-intent detection accepted: those whose
\* URL does not end in a supported extension
DetectedIn(files) ==
  {f \in Range(files) :
     \A info \in Range(extractFileInfo(f.url)) : ~isSupported(info.extension)}

\* the positions of the dot of a name that only letters and digits follow, at
\* least one
ExtensionDots(name) ==
  {p \in 1..(Len(name) - 1) :
     name[p] = "." /\ \A q \in (p + 1)..Len(name) : name[q] \in AlnumChars}

\* C30 as stated: a candidate that download-intent detection accepted has
\* isInferredDownload = true and the extension 'download'.
C30_DetectedHasSentinelExtension ==
  \A response \in Range(scanResponse) :
    ~response.threw =>
      \A f \in DetectedIn(response.value) :
        /\ Get(f, "isInferredDownload") = TRUE
        /\ f.extension = DownloadName

\* C30 as amended: a candidate that download-intent detection accepted has
\* isInferredDownload = true; its extension is the extension of its filename in
\* lower case when the filename ends in a dot and a supported extension, and
\* 'download' otherwise.
C30_DetectedExtensionFromFilename ==
  \A response \in Range(scanResponse) :
    ~response.threw =>
      \A f \in DetectedIn(response.value) :
        LET ends == {toLowerCase(SubSeq(f.filename, p + 1, Len(f.filename))) :
                       p \in ExtensionDots(f.filename)}
        IN  /\ Get(f, "isInferredDownload") = TRUE
            /\ f.extension \in
                 (IF ends \cap SUPPORTED_EXTENSIONS # {}
                  THEN ends ELSE {DownloadName})

\* a scan has answered with two candidates that detection accepted: one named
\* Report.PDF, with the extension pdf, and one named notes.xyz, with the
\* extension 'download'
C30_Witness ==
  /\ scanResponse # <<>>
  /\ ~scanResponse[1].threw
  /\ \E f \in DetectedIn(scanResponse[1].value) :
       f.filename = <<"R", "e", "p", "o", "r", "t", ".", "P", "D", "F">> /\ f.extension = Pdf
  /\ \E f \in DetectedIn(scanResponse[1].value) :
       f.filename = <<"n", "o", "t", "e", "s", ".", "x", "y", "z">> /\ f.extension = DownloadName

\* C15: enableLiveScan while the monitor is enabled changes nothing: one
\* observer stays connected, and the pending flag, the debounce timer and the
\* messages sent are left as they are.
C15_EnableTwiceChangesNothing ==
  [][(liveEvent'.name = "enable" /\ observer) =>
       /\ observing' = 1
       /\ UNCHANGED <<liveScanEnabled, observer, observing, pendingChanges,
                      debounceTimer, timers, publications, burst>>
    ]_vars

\* enableLiveScan has just run on a monitor that was enabled and had a re-scan
\* pending: the timer is still armed, and one observer is connected
C15_Witness ==
  /\ liveEvent = [name |-> "enable", pending |-> TRUE]
  /\ observing = 1
  /\ pendingChanges
  /\ timers # {}
  /\ burst # <<>>

\* C16: after disableLiveScan, in whatever state it is called, the monitor is
\* disabled, no observer is connected, the pending flag is false and no timer is
\* armed; a message is only ever sent for batches that arrived after the last
\* disableLiveScan, so a re-scan pending at that call is never published.
C16_DisableClearsEverything ==
  [][/\ liveEvent'.name = "disable" =>
          /\ ~liveScanEnabled'
          /\ ~observer'
          /\ observing' = 0
          /\ ~pendingChanges'
          /\ timers' = {}
     /\ publications' # publications => (liveScanEnabled /\ burst # <<>>)
     /\ ~liveScanEnabled' => (timers' = {} /\ ~pendingChanges' /\ burst' = <<>>)
    ]_vars

\* disableLiveScan ran while a re-scan was pending; the debounce delay of the
\* last batch has passed since, and nothing was published
C16_Witness ==
  /\ liveEvent = [name |-> "disable", pending |-> TRUE]
  /\ ~liveScanEnabled
  /\ publications = <<>>
  /\ debounceTimer # <<>>
  /\ now >= debounceTimer[1]
  /\ timers = {}

\* C17: the relevant batches of a burst lead to one filesChanged message, sent
\* no earlier than DebounceMs after the last of them: at most one timer is armed
\* at any time, while batches are unpublished it is the timer set DebounceMs
\* after the last batch, and a message is sent only for unpublished batches and
\* publishes them all.
C17_DebouncedPublication ==
  [][/\ Cardinality(timers') <= 1
     /\ burst' # <<>> =>
          /\ pendingChanges'
          /\ timers' = {burst'[Len(burst')] + DebounceMs}
     /\ publications' # publications =>
          /\ Len(publications') = Len(publications) + 1
          /\ burst # <<>>
          /\ now >= burst[Len(burst)] + DebounceMs
          /\ burst' = <<>>
          /\ timers' = {}
    ]_vars

\* a message has been sent for a burst of two batches that arrived less than
\* DebounceMs apart, DebounceMs after the second of them, and it is the only one
C17_Witness ==
  /\ Len(publications) = 1
  /\ Len(publications[1].burst) = 2
  /\ publications[1].burst[2] > publications[1].burst[1]
  /\ publications[1].burst[2] - publications[1].burst[1] < DebounceMs
  /\ publications[1].at = publications[1].burst[2] + DebounceMs
  /\ liveEvent.name = "timeout"

\* C36: while the monitor stays enabled, every relevant mutation batch is
\* eventually followed by a re-scan publication, provided relevant mutations
\* eventually stop arriving and the armed timer is allowed to fire; after the
\* publication the pending flag is false.
C36_RelevantBatchIsPublished ==
  /\ \A n \in 0..MaxLiveTicks :
       (burst # <<>> /\ Len(publications) = n)
         ~> (Len(publications) > n \/ ~liveScanEnabled)
  /\ [][publications' # publications =>
          /\ ~pendingChanges'
          /\ publications'[Len(publications')].burst = burst
          /\ burst # <<>>]_vars

\* the monitor is enabled and a second message has been sent, for a batch that
\* arrived after the first message; nothing is pending
C36_Witness ==
  /\ liveScanEnabled
  /\ Len(publications) = 2
  /\ publications[2].burst[1] >= publications[1].at
  /\ ~pendingChanges
  /\ burst = <<>>

\* C37: if publishing a re-scan fails because no subscriber is reachable, the
\* failure is swallowed: the monitor stays enabled with the pending flag cleared
\* and no timer armed, no retry is scheduled, and the next relevant mutation
\* batch starts a new debounce and a new publication.
C37_FailedPublicationIsSwallowed ==
  [][ /\ ( /\ publications' # publications
           /\ ~publications'[Len(publications')].delivered )
         => /\ liveScanEnabled' /\ observer' /\ observing' = 1
            /\ ~pendingChanges'
            /\ timers' = {}
            /\ burst' = <<>>
      /\ ( /\ publications # <<>>
           /\ ~publications[Len(publications)].delivered )
         => /\ (publications' = publications /\ burst' # burst /\ burst' # <<>>) =>
                 /\ pendingChanges'
                 /\ timers' = {now + DebounceMs}
            /\ publications' # publications =>
                 /\ publications'[Len(publications')].burst = burst
                 /\ \A i \in 1..Len(burst) :
                      burst[i] >= publications[Len(publications)].at
                 /\ now >= burst[Len(burst)] + DebounceMs
    ]_vars

\* a message that reached no subscriber has been followed by a relevant batch
\* and, DebounceMs after that batch, by a second message
C37_Witness ==
  /\ Len(publications) = 2
  /\ ~publications[1].delivered
  /\ publications[2].burst # <<>>
  /\ publications[2].burst[1] >= publications[1].at
  /\ publications[2].at >= publications[2].burst[1] + DebounceMs
  /\ liveScanEnabled

\* C38: in every reachable state of the content script the pending flag is true
\* exactly when a debounce timer is armed, under any interleaving of enable,
\* disable, relevant and irrelevant mutation batches and timer expiry; hence the
\* flag is always set when the timer fires, and an irrelevant batch changes
\* neither the flag nor the timer.
C38_PendingIffTimerArmed ==
  /\ [](pendingChanges <=> timers # {})
  /\ [][ /\ (liveEvent'.name = "timeout" /\ timers' # timers) =>
              /\ pendingChanges
              /\ liveEvent'.pending
              /\ Len(publications') = Len(publications) + 1
         /\ (liveEvent'.name = "mutations" /\ burst' = burst) =>
              /\ pendingChanges' = pendingChanges
              /\ timers' = timers
              /\ debounceTimer' = debounceTimer
    ]_vars

\* an irrelevant batch has arrived while a timer was armed for a relevant one:
\* the flag is set and the timer is still the one armed before
C38_Witness ==
  /\ liveEvent.name = "mutations"
  /\ liveEvent.pending
  /\ pendingChanges
  /\ Len(burst) = 1
  /\ timers = {burst[1] + DebounceMs}
  /\ now > burst[1]

(***************************************************************************)
(* Extensions: properties                                                  *)
(***************************************************************************)

\* a string of lower-case letters and digits, possibly empty
IsLowerAlnum(extension) ==
  \A i \in 1..Len(extension) : extension[i] \in LowerLetters \cup Digits

\* C20: in every scan result and in every enrichment result the extension of a
\* candidate is empty or consists of lower-case letters and digits only, and a
\* name ending in .PDF gives the extension pdf.
C20_ExtensionsLowercaseAlnum ==
  /\ \A response \in Range(scanResponse) :
       ~response.threw =>
         \A f \in Range(response.value) :
           /\ IsLowerAlnum(f.extension)
           /\ f.url = "https://x/docs/Report.PDF" => f.extension = Pdf
  /\ \A c \in CallIds : \A i \in 1..Len(calls[c].results) :
       calls[c].results[i].status = "fulfilled" =>
         IsLowerAlnum(calls[c].results[i].value.extension)
  /\ \A fetch \in Range(lastFetch) :
       HasKey(fetch, "result") =>
         /\ IsLowerAlnum(fetch.result.extension)
         /\ (fetch.response.ok
             /\ fetch.response.contentDisposition = <<"a", "t", "t", "a", "c", "h", "m", "e", "n", "t", ";", " ", "f", "i", "l", "e", "n", "a", "m", "e", "=", "\"", "R", "e", "p", "o", "r", "t", ".", "P", "D", "F", "\"">>)
              => fetch.result.extension = Pdf

\* C23: the candidate {filename 'Report', extension 'download',
\* isInferredDownload true} whose probe is answered with a success status and
\* Content-Disposition: attachment; filename="report.pdf" is returned with
\* filename 'report.pdf', extension 'pdf', enriched = true and the url it had,
\* whatever the other headers of the answer are and whether or not the request
\* was redirected.
C23_ReportPdfFromContentDisposition ==
  \A fetch \in Range(lastFetch) :
    ( /\ HasKey(fetch, "result")
      /\ fetch.file = CandR
      /\ fetch.response.ok
      /\ fetch.response.contentDisposition = AttachmentReportPdf )
    => /\ fetch.result.filename = ReportPdf
       /\ fetch.result.extension = Pdf
       /\ Get(fetch.result, "enriched") = TRUE
       /\ fetch.result.url = CandR.url

\* the probe of the candidate has been answered with that Content-Disposition,
\* a Content-Type of another kind and a redirect, and the candidate returned as
\* report.pdf
C23_Witness ==
  \E fetch \in Range(lastFetch) :
    /\ HasKey(fetch, "result")
    /\ fetch.file = CandR
    /\ fetch.response.ok
    /\ fetch.response.contentDisposition = AttachmentReportPdf
    /\ fetch.response.contentType = <<"t", "e", "x", "t", "/", "h", "t", "m", "l">>
    /\ fetch.response.url # CandR.url
    /\ fetch.result.filename = ReportPdf
    /\ Get(fetch.result, "enriched") = TRUE

\* the filename parseContentDisposition recovers from the answer, if any
RecoveredName(response) ==
  IF Truthy(response.contentDisposition)
  THEN parseContentDisposition(response.contentDisposition)
  ELSE Null

\* the extension the MIME table has for the Content-Type of the answer, if any
TypeExtension(response) ==
  IF Truthy(response.contentType)
  THEN MimeLookup(toLowerCase(Trim(Split(response.contentType, ";")[1])))
  ELSE Undefined

\* C35 as stated: in fetchFileMetadata the Content-Type header is used to derive
\* an extension only when no filename was recovered from Content-Disposition; a
\* filename recovered from Content-Disposition is never combined with an
\* extension taken from Content-Type: the candidate gets the extension of that
\* filename or keeps its own.
C35_ContentTypeOnlyWithoutFilename ==
  \A fetch \in Range(lastFetch) :
    ( /\ HasKey(fetch, "result")
      /\ fetch.response.ok
      /\ Truthy(RecoveredName(fetch.response)) )
    => LET ext == ExtensionOf(RecoveredName(fetch.response))
       IN  fetch.result.extension = IF ext # Undefined THEN ext ELSE fetch.file.extension

\* C35: in fetchFileMetadata the Content-Type header is used to derive an
\* extension only when no extension was recovered from Content-Disposition: a
\* filename recovered from Content-Disposition that ends in an extension is
\* never combined with an extension taken from Content-Type, and one without an
\* extension keeps its name and gets the extension the MIME table has for the
\* Content-Type, if any.
C35_ContentTypeOnlyWithoutExtension ==
  \A fetch \in Range(lastFetch) :
    ( /\ HasKey(fetch, "result")
      /\ fetch.response.ok
      /\ Truthy(RecoveredName(fetch.response)) )
    => LET name == RecoveredName(fetch.response)
           ext  == ExtensionOf(name)
           type == TypeExtension(fetch.response)
       IN  /\ fetch.result.filename = name
           /\ fetch.result.extension =
                IF ext # Undefined THEN ext
                ELSE IF Truthy(type) THEN type
                ELSE fetch.file.extension

\* a probe has been answered with Content-Disposition: attachment;
\* filename=report and Content-Type: application/pdf, and the candidate is
\* returned as 'report' with extension pdf
C35_Witness ==
  \E fetch \in Range(lastFetch) :
    /\ HasKey(fetch, "result")
    /\ fetch.response.ok
    /\ fetch.response.contentDisposition = <<"a", "t", "t", "a", "c", "h", "m", "e", "n", "t", ";", " ", "f", "i", "l", "e", "n", "a", "m", "e", "=", "r", "e", "p", "o", "r", "t">>
    /\ fetch.response.contentType = <<"a", "p", "p", "l", "i", "c", "a", "t", "i", "o", "n", "/", "p", "d", "f">>
    /\ fetch.file.extension = DownloadName
    /\ fetch.result.filename = <<"r", "e", "p", "o", "r", "t">>
    /\ fetch.result.extension = Pdf

(***************************************************************************)
(* Filename resolution: properties                                        *)
(***************************************************************************)

\* the string cleaned when it passes the usefulness test, null otherwise
UsefulName(str) == IF isUsefulFilename(str) THEN cleanFilename(str) ELSE Null

\* the name each rule of the chain has for an anchor on a page, null when it has
\* none: title attribute, filename/name attribute, anchor text, aria-label,
\* filename query parameter, nearby structural context, page heading or title,
\* last URL path segment
RuleNames(anchor, page) ==
  LET FromAttribute(attr) ==
        IF Includes(attr.name, <<"n", "a", "m", "e">>) THEN UsefulName(attr.value) ELSE Null
      Segment(lastPart) ==
        IF isUsefulFilename(lastPart) THEN lastPart ELSE Null
  IN  << IF anchor.title # Null /\ IsFileSize(anchor.title) THEN Null
         ELSE UsefulName(anchor.title),
         FirstFound([i \in 1..Len(anchor.attributes) |->
                       FromAttribute(anchor.attributes[i])]),
         UsefulName(Trim(anchor.textContent)),
         UsefulName(anchor.ariaLabel),
         extractFilenameFromQuery(anchor.url),
         extractFilenameFromContext(anchor),
         extractFilenameFromPage(page),
         Segment(extractFilenameFromUrlPath(anchor.url)) >>

\* C39: extractBestFilename returns the name produced by the first rule, in the
\* order title attribute, filename/name attribute, anchor text, aria-label,
\* filename query parameter, nearby structural context, page heading or title,
\* last URL path segment, literal 'download', whose value passes the usefulness
\* test; a later rule is never used when an earlier rule yields a useful name,
\* and a title that is only a size (such as 144 K) is skipped.
C39_FirstUsefulRuleWins ==
  \A call \in Range(resolved) :
    HasKey(call, "filename") =>
      LET names == RuleNames(call.anchor, call.page)
      IN  /\ call.filename = FirstFound(names \o <<DownloadName>>)
          /\ \A k \in 1..Len(names) :
               names[k] # Null =>
                 \E i \in 1..k : names[i] # Null /\ call.filename = names[i]
          /\ call.anchor.title = <<"1", "4", "4", " ", "K">> => call.filename # <<"1", "4", "4", " ", "K">>

\* the name of an anchor titled 144 K and labelled Download, without name
\* attribute, aria-label or query parameter, is taken from the heading next to
\* it, although the page has a heading and the URL a path segment
C39_Witness ==
  \E call \in Range(resolved) :
    /\ HasKey(call, "filename")
    /\ call.anchor.title = <<"1", "4", "4", " ", "K">>
    /\ call.anchor.textContent = <<"D", "o", "w", "n", "l", "o", "a", "d">>
    /\ call.anchor.url = "https://x/download/123"
    /\ call.page.h1 = <<"C", "a", "t", "a", "l", "o", "g", "u", "e">>
    /\ RuleNames(call.anchor, call.page)[7] = <<"C", "a", "t", "a", "l", "o", "g", "u", "e">>
    /\ call.filename = <<"F", "o", "n", "t", "s">>

\* the characters no filename may contain, and the line breaks
UncleanChars == {"<", ">", ":", "\"", "/", "\\", "|", "?", "*", "\n", "\r"}

\* C40: every filename returned by extractBestFilename, by whichever rule it was
\* produced, contains no filesystem-invalid character (< > : " / \ | ? *) and no
\* newline, and is at most 80 characters long.
C40_ResolvedNamesAreClean ==
  \A call \in Range(resolved) :
    HasKey(call, "filename") =>
      /\ Len(call.filename) <= 80
      /\ \A i \in 1..Len(call.filename) : call.filename[i] \notin UncleanChars

=============================================================================
